---- MODULE Spec2Model ----
(***************************************************************************)
(* Presence and message-delivery core of the chat backend:                 *)
(*   SocketGateway        (socket.gateway.ts, src/unnamed/part_006)        *)
(*   UserPresenceService  (user-presence.service.ts)                       *)
(*   ChatService          (chat.service.ts)                                *)
(* A step runs from one await of the TypeScript code to the next: every    *)
(* Redis command of setOnline, setOffline and cleanupExpiredPresence is a  *)
(* step (Spec, SpecSweep), and every database call of a message, chat:join *)
(* or message:read handler is a step together with the synchronous code    *)
(* that follows it (SpecChat, where the Presence Store answers at once),   *)
(* so that concurrent handlers interleave where the Node.js event loop     *)
(* lets them interleave.                                                   *)
(***************************************************************************)
EXTENDS Integers, Sequences, FiniteSets, TLC

\* ------------------------------------------------------------------ universe

\* User ids known to the auth collaborator.
Users == {"A", "B", "X", "Y"}

\* Socket ids (socket.io gives every transport session a fresh id, so a
\* socket connects at most once).
Conns == {"a1", "b1", "b2"}

\* The user the credential of a client device resolves to
\* (authService.validateUser(payload) in the token middleware).
UserOf(s) == IF s = "a1" THEN "A" ELSE "B"

\* Handshake credentials a client may present.
Tokens == {"missing", "badJwt", "badUser", "valid"}

\* Chats known to the storage collaborator, with their participants
\* (the chat_participants relation read by ChatService.getChat).
Chats == {"c1", "c2", "c3"}

Participants(c) ==
    CASE c = "c1" -> {"A", "B"}
      [] c = "c2" -> {"X", "Y"}
      [] OTHER    -> {"A", "X"}

\* A chat id no chat has (getChat throws NotFoundException for it).
NoChat == "c0"

\* How many rows the messages table may hold.
MaxMsgs == 1

\* How many message, chat:join and message:read handlers may be between two
\* of their awaits at the same time.
MaxInFlight == 2

NoRecord == [status |-> "none", stale |-> FALSE]

\* A socket on which no handler is between two awaits.
IdleOp == [kind |-> "idle", pc |-> "-", chat |-> "-", msg |-> 0,
           status |-> "-", list |-> {}]

VARIABLES
    sock,             \* transport state of every socket
    token,            \* the credential the socket presented at the handshake
    connectedClients, \* SocketGateway.connectedClients, in Map insertion order
    pcOn,             \* progress of the setOnline call made by handleConnection
    pcOff,            \* progress of the setOffline call made by handleDisconnect
    redis,            \* the Presence Store: presence keys, users:online, user:sockets:*
    pcClean,          \* progress and locals of cleanupExpiredPresence
    onlineBroadcasts, \* users:update {isOnline: true} emitted, per user
    offlineBroadcasts, \* users:update {isOnline: false} emitted, per user
    rooms,            \* io.sockets.adapter.rooms for the chat:<chatId> rooms
    messages,         \* the messages table; a message's id is its index
    op,               \* per socket: the handler that is between two awaits
    out,              \* what the last step emitted to clients
    sends,            \* per socket: the message events it sent, in receipt order
    sessions,         \* SessionService's keys in Redis: session:<id>, user:sessions:<u>
    consumer,         \* KafkaConsumerService: the handlers Map and the events processed
    idle,             \* per socket: is its entry's lastActivity, and is the last
                      \* event received on it, older than maxInactiveTime
    pubsub,           \* RedisService's subscriber connection: channels, listeners, last message
    cache             \* MessageCacheService's keys in Redis: message:<id>, chat:recent:<chatId>

presenceVars == <<sock, token, connectedClients, pcOn, pcOff, redis, pcClean,
                  onlineBroadcasts, offlineBroadcasts>>

chatVars == <<rooms, messages, op, out, sends>>

\* The state of the services beside the gateway.
otherVars == <<sessions, consumer, idle, pubsub, cache>>

vars == <<presenceVars, chatVars, otherVars>>

\* ------------------------------------------------------------ Presence Store

\* redisService.set(PRESENCE_PREFIX + userId, JSON({status, lastSeen: now}), ttl)
\* "stale" abstracts lastSeen < now - PRESENCE_TTL * 1000; a record just
\* written is fresh.
SetPresence(r, u, st) ==
    [r EXCEPT !.presence[u] = [status |-> st, stale |-> FALSE]]

\* redisService.sadd(ONLINE_USERS_SET, userId)
SaddOnline(r, u) == [r EXCEPT !.online = @ \cup {u}]

\* redisService.srem(ONLINE_USERS_SET, userId)
SremOnline(r, u) == [r EXCEPT !.online = @ \ {u}]

\* redisService.sadd(USER_SOCKETS_PREFIX + userId, socketId)
SaddSocket(r, u, s) == [r EXCEPT !.sockets[u] = @ \cup {s}]

\* redisService.srem(USER_SOCKETS_PREFIX + userId, socketId)
SremSocket(r, u, s) == [r EXCEPT !.sockets[u] = @ \ {s}]

isUserOnline(u) == u \in redis.online

getUserSockets(u) == redis.sockets[u]

getUserPresence(u) == redis.presence[u]

getOnlineUsers == redis.online

\* ------------------------------------------------------- Connection Registry

RECURSIVE SeqToSet(_)
SeqToSet(q) == IF q = <<>> THEN {} ELSE {Head(q)} \cup SeqToSet(Tail(q))

RECURSIVE SeqRemove(_, _)
SeqRemove(q, x) ==
    IF q = <<>> THEN <<>>
    ELSE IF Head(q) = x THEN SeqRemove(Tail(q), x)
    ELSE <<Head(q)>> \o SeqRemove(Tail(q), x)

\* The socket ids that are keys of a connectedClients map.
Registered(cc) == SeqToSet(cc)

\* Array.from(connectedClients).filter(client.userId === userId)
SocketsOfUser(cc, u) == {s \in Registered(cc) : UserOf(s) = u}

\* --------------------------------------------------------------- connecting

\* Mutant of TokenMiddleware: the result of validateUser is not checked.
TokenMiddlewareSkipsValidation(tok) ==
    IF tok \in {"missing", "badJwt"} THEN "error" ELSE "next"

\* The token middleware installed by afterInit: "next" lets the connection
\* through, "error" makes socket.io refuse it (next(error)).
TokenMiddleware(tok) ==
    IF tok = "missing" THEN "error"          \* !rawToken
    ELSE IF tok = "badJwt" THEN "error"      \* jwtService.verifyAsync throws
    ELSE IF tok = "badUser" THEN "error"     \* authService.validateUser throws
    ELSE "next"

\* A client opens a transport and presents a credential.  When the
\* middleware lets it through, socket.io fires the connection event and
\* handleConnection runs up to its first await: the socket is put into
\* connectedClients and setOnline issues its first Redis command.
ClientConnects(s, tok) ==
    /\ sock[s] = "new"
    /\ token' = [token EXCEPT ![s] = tok]
    /\ IF TokenMiddleware(tok) = "error"
       THEN /\ sock' = [sock EXCEPT ![s] = "rejected"]
            /\ UNCHANGED <<connectedClients, pcOn>>
       ELSE /\ sock' = [sock EXCEPT ![s] = "open"]
            /\ connectedClients' = Append(connectedClients, s)
            /\ pcOn' = [pcOn EXCEPT ![s] = "set"]
    /\ UNCHANGED <<pcOff, redis, pcClean, onlineBroadcasts, offlineBroadcasts,
                   chatVars, otherVars>>

\* setOnline, first command: SET user:presence:<u> {status: online} EX 300
SetOnlineSetKey(s) ==
    /\ pcOn[s] = "set"
    /\ redis' = SetPresence(redis, UserOf(s), "online")
    /\ pcOn' = [pcOn EXCEPT ![s] = "saddOnline"]
    /\ UNCHANGED <<sock, token, connectedClients, pcOff, pcClean,
                   onlineBroadcasts, offlineBroadcasts, chatVars, otherVars>>

\* setOnline, second command: SADD users:online <u>
SetOnlineSaddOnline(s) ==
    /\ pcOn[s] = "saddOnline"
    /\ redis' = SaddOnline(redis, UserOf(s))
    /\ pcOn' = [pcOn EXCEPT ![s] = "saddSocket"]
    /\ UNCHANGED <<sock, token, connectedClients, pcOff, pcClean,
                   onlineBroadcasts, offlineBroadcasts, chatVars, otherVars>>

\* setOnline, third command: SADD user:sockets:<u> <s>
SetOnlineSaddSocket(s) ==
    /\ pcOn[s] = "saddSocket"
    /\ redis' = SaddSocket(redis, UserOf(s), s)
    /\ pcOn' = [pcOn EXCEPT ![s] = "publish"]
    /\ UNCHANGED <<sock, token, connectedClients, pcOff, pcClean,
                   onlineBroadcasts, offlineBroadcasts, chatVars, otherVars>>

\* broadcastUserStatus(userId, isOnline): io.emit('users:update', ...)
broadcastUserStatus(bc, u) == [bc EXCEPT ![u] = @ + 1]

\* The rest of handleConnection, after the Kafka publications (which never
\* throw and change no state of the core): connection:established and the
\* presence-online broadcast.
ConnectionEstablished(s) ==
    /\ pcOn[s] = "publish"
    /\ onlineBroadcasts' = broadcastUserStatus(onlineBroadcasts, UserOf(s))
    /\ pcOn' = [pcOn EXCEPT ![s] = "done"]
    /\ UNCHANGED <<sock, token, connectedClients, pcOff, redis, pcClean,
                   offlineBroadcasts, chatVars, otherVars>>

\* ------------------------------------------------------------ disconnecting

\* Mutant of handleDisconnect: hasOtherConnections forgets to compare userId.
handleDisconnectAnyUser(g, s) ==
    IF s \notin SeqToSet(g.cc) THEN g
    ELSE LET cc2 == SeqRemove(g.cc, s)
         IN  [g EXCEPT !.cc  = cc2,
                       !.off = [@ EXCEPT ![s] = "srem"],
                       !.bc  = IF cc2 # <<>> THEN @
                               ELSE [@ EXCEPT ![UserOf(s)] = @ + 1]]

\* handleDisconnect that leaves the entry of the socket in connectedClients.
handleDisconnectKeepsEntry(g, s) ==
    IF s \notin Registered(g.cc) \/ g.off[s] # "idle" THEN g
    ELSE [g EXCEPT !.off = [@ EXCEPT ![s] = "srem"]]

\* handleDisconnect(client), on the gateway state g = [cc, off, bc, sock, rm]
\* (connectedClients, the setOffline calls started, the offline broadcasts,
\* the transports, the rooms).  Without an entry in connectedClients it does
\* nothing.  Otherwise it deletes the entry, starts setOffline without
\* awaiting it, and broadcasts the user offline when no other entry of the
\* user is left.
handleDisconnect(g, s) ==
    IF s \notin Registered(g.cc) THEN g
    ELSE LET cc2 == SeqRemove(g.cc, s)
             hasOtherConnections == SocketsOfUser(cc2, UserOf(s)) # {}
         IN  [g EXCEPT !.cc  = cc2,
                       !.off = [@ EXCEPT ![s] = "srem"],
                       !.bc  = IF hasOtherConnections THEN @
                               ELSE broadcastUserStatus(@, UserOf(s))]

\* socket.io takes a closed socket out of every room before the event fires.
LeaveAllRooms(rm, closed) == [c \in Chats |-> rm[c] \ closed]

\* The socket's disconnect event.  Two listeners run handleDisconnect, one
\* after the other: the one the token middleware registered with
\* socket.on('disconnect') and the gateway's OnGatewayDisconnect hook.
OnDisconnectEvent(g, s) ==
    LET closed == [g EXCEPT !.sock[s] = "closed",
                            !.rm = LeaveAllRooms(@, {s})]
    IN  handleDisconnect(handleDisconnect(closed, s), s)

GatewayState ==
    [cc |-> connectedClients, off |-> pcOff, bc |-> offlineBroadcasts,
     sock |-> sock, rm |-> rooms]

\* The transport of s closes: the client went away, or a close the server
\* asked for with disconnect(true) completes.
SocketCloses(s) ==
    /\ sock[s] \in {"open", "closing"}
    /\ LET g == OnDisconnectEvent(GatewayState, s)
       IN  /\ connectedClients' = g.cc
           /\ pcOff' = g.off
           /\ offlineBroadcasts' = g.bc
           /\ sock' = g.sock
           /\ rooms' = g.rm
    /\ UNCHANGED <<token, pcOn, redis, pcClean, onlineBroadcasts, messages,
                   op, out, sends, otherVars>>

\* setOffline, first command: SREM user:sockets:<u> <s>
SetOfflineSremSocket(s) ==
    /\ pcOff[s] = "srem"
    /\ redis' = SremSocket(redis, UserOf(s), s)
    /\ pcOff' = [pcOff EXCEPT ![s] = "read"]
    /\ UNCHANGED <<sock, token, connectedClients, pcOn, pcClean,
                   onlineBroadcasts, offlineBroadcasts, chatVars, otherVars>>

\* setOffline, second command: activeSockets = SMEMBERS user:sockets:<u>;
\* the offline branch is taken when it is empty.
SetOfflineReadSockets(s) ==
    /\ pcOff[s] = "read"
    /\ pcOff' = [pcOff EXCEPT ![s] =
                   IF Cardinality(getUserSockets(UserOf(s))) = 0
                   THEN "setKey" ELSE "done"]
    /\ UNCHANGED <<sock, token, connectedClients, pcOn, redis, pcClean,
                   onlineBroadcasts, offlineBroadcasts, chatVars, otherVars>>

\* setOffline, offline branch: SET user:presence:<u> {status: offline} EX 86400
SetOfflineSetKey(s) ==
    /\ pcOff[s] = "setKey"
    /\ redis' = SetPresence(redis, UserOf(s), "offline")
    /\ pcOff' = [pcOff EXCEPT ![s] = "sremOnline"]
    /\ UNCHANGED <<sock, token, connectedClients, pcOn, pcClean,
                   onlineBroadcasts, offlineBroadcasts, chatVars, otherVars>>

\* setOffline, offline branch: SREM users:online <u>
SetOfflineSremOnline(s) ==
    /\ pcOff[s] = "sremOnline"
    /\ redis' = SremOnline(redis, UserOf(s))
    /\ pcOff' = [pcOff EXCEPT ![s] = "done"]
    /\ UNCHANGED <<sock, token, connectedClients, pcOn, pcClean,
                   onlineBroadcasts, offlineBroadcasts, chatVars, otherVars>>

\* setOffline, a command that throws: SREM of the socket, SET of the key or
\* SREM from users:online fails, setOffline logs and rethrows, and the catch
\* around the call in handleDisconnect logs 'Failed to set user offline in
\* Redis'.  The command that failed wrote nothing and nothing runs after it.
SetOfflineFails(s) ==
    /\ pcOff[s] \in {"srem", "setKey", "sremOnline"}
    /\ pcOff' = [pcOff EXCEPT ![s] = "failed"]
    /\ UNCHANGED <<sock, token, connectedClients, pcOn, redis, pcClean,
                   onlineBroadcasts, offlineBroadcasts, chatVars, otherVars>>

\* setOffline, second command, when SMEMBERS throws: getUserSockets catches
\* the error and returns [], so the offline branch is taken.
SetOfflineReadSocketsFails(s) ==
    /\ pcOff[s] = "read"
    /\ pcOff' = [pcOff EXCEPT ![s] = "setKey"]
    /\ UNCHANGED <<sock, token, connectedClients, pcOn, redis, pcClean,
                   onlineBroadcasts, offlineBroadcasts, chatVars, otherVars>>

\* ------------------------------------------------------- the periodic sweep

\* client.socket.disconnect(true): nothing on a socket that is not connected;
\* otherwise the transport is closed, and the disconnect event fires either
\* before disconnect returns (sync) or later, when the close completes.
DisconnectTrue(g, s, sync) ==
    IF g.sock[s] # "open" THEN g
    ELSE IF sync THEN OnDisconnectEvent(g, s)
    ELSE [g EXCEPT !.sock[s] = "closing"]

\* The entries the sweep closes: those whose socket is not connected and those
\* whose lastActivity is older than maxInactiveTime.  lastActivity is written
\* once, when the entry is made, so the inactive entries are the first k of
\* the map for some k.
RECURSIVE SweepVictims(_, _, _)
SweepVictims(cc, k, sk) ==
    IF cc = <<>> THEN <<>>
    ELSE LET isInactive == k > 0
             connected == sk[Head(cc)] \in {"open", "closing"}
             rest == SweepVictims(Tail(cc), IF k > 0 THEN k - 1 ELSE 0, sk)
         IN  IF ~connected \/ isInactive THEN <<Head(cc)>> \o rest ELSE rest

\* for (const [id, client] of connectedClients.entries())
\*   { client.socket.disconnect(true); connectedClients.delete(id) }
RECURSIVE SweepLoop(_, _, _)
SweepLoop(g, victims, syncClose) ==
    IF victims = <<>> THEN g
    ELSE LET v == Head(victims)
             g1 == DisconnectTrue(g, v, v \in syncClose)
             g2 == [g1 EXCEPT !.cc = SeqRemove(@, v)]
         IN  SweepLoop(g2, Tail(victims), syncClose)

CleanIdle == [pc |-> "idle", left |-> {}, target |-> "-"]

\* cleanupDeadConnections, every 30 s; it ends by starting
\* cleanupExpiredPresence, of which one run is in flight at a time.
cleanupDeadConnections(k, syncClose) ==
    /\ pcClean.pc = "idle"
    /\ LET g == SweepLoop(GatewayState,
                          SweepVictims(connectedClients, k, sock), syncClose)
       IN  /\ connectedClients' = g.cc
           /\ pcOff' = g.off
           /\ offlineBroadcasts' = g.bc
           /\ sock' = g.sock
           /\ rooms' = g.rm
    /\ pcClean' = [CleanIdle EXCEPT !.pc = "smembers"]
    /\ UNCHANGED <<token, pcOn, redis, onlineBroadcasts, messages, op, out,
                   sends, otherVars>>

\* What cleanupExpiredPresence does after a user: the next one, or the end.
CleanNext(left) ==
    IF left = {} THEN CleanIdle ELSE [CleanIdle EXCEPT !.pc = "get", !.left = left]

\* cleanupExpiredPresence: onlineUsers = SMEMBERS users:online
CleanupReadOnline ==
    /\ pcClean.pc = "smembers"
    /\ pcClean' = CleanNext(getOnlineUsers)
    /\ UNCHANGED <<sock, token, connectedClients, pcOn, pcOff, redis,
                   onlineBroadcasts, offlineBroadcasts, chatVars, otherVars>>

\* cleanupExpiredPresence: presence = GET user:presence:<u>; expired when
\* presence && presence.lastSeen < expiredThreshold
CleanupGetPresence(u) ==
    /\ pcClean.pc = "get"
    /\ u \in pcClean.left
    /\ LET presence == getUserPresence(u)
       IN  pcClean' = IF presence.status # "none" /\ presence.stale
                      THEN [pc |-> "srem", left |-> pcClean.left \ {u}, target |-> u]
                      ELSE CleanNext(pcClean.left \ {u})
    /\ UNCHANGED <<sock, token, connectedClients, pcOn, pcOff, redis,
                   onlineBroadcasts, offlineBroadcasts, chatVars, otherVars>>

\* cleanupExpiredPresence: SREM users:online <u>
CleanupSremOnline ==
    /\ pcClean.pc = "srem"
    /\ redis' = SremOnline(redis, pcClean.target)
    /\ pcClean' = CleanNext(pcClean.left)
    /\ UNCHANGED <<sock, token, connectedClients, pcOn, pcOff,
                   onlineBroadcasts, offlineBroadcasts, chatVars, otherVars>>

\* What the passing of time makes of a presence record.  An online record is
\* written with EX PRESENCE_TTL (300 s) and an offline one with EX 86400;
\* lastSeen is taken before the SET reaches Redis, so a record may be older
\* than PRESENCE_TTL while its key is still there.
AgedRecords(rec) ==
    IF rec.status = "none" THEN {}
    ELSE IF rec.stale THEN {NoRecord}
    ELSE IF rec.status = "offline" THEN {[rec EXCEPT !.stale = TRUE]}
    ELSE {[rec EXCEPT !.stale = TRUE], NoRecord}

PresenceAges(u) ==
    /\ \E rec \in AgedRecords(redis.presence[u]) :
          redis' = [redis EXCEPT !.presence[u] = rec]
    /\ UNCHANGED <<sock, token, connectedClients, pcOn, pcOff, pcClean,
                   onlineBroadcasts, offlineBroadcasts, chatVars, otherVars>>

\* ------------------------------------------------------------ ChatService

\* An event emitted to the sockets in "to": a server-to-client event
\* (message, message:ack, message:status) or the reply to a request (type
\* "reply", with the request's name in req and "ok" or "error" in status).
Event(type, to, req, chat, msg, status) ==
    [type |-> type, to |-> to, req |-> req, chat |-> chat, msg |-> msg,
     status |-> status]

Reply(s, req, chat, msg, status) == Event("reply", {s}, req, chat, msg, status)

MsgIds == 1..Len(messages)

\* getUndeliveredMessages without its condition on the status.
getMessagesOfOthers(ms, u, c) ==
    {m \in 1..Len(ms) : /\ u \in Participants(ms[m].chatId)
                        /\ ms[m].senderId # u
                        /\ ms[m].chatId = c}

\* getUndeliveredMessages that looks for the user's own messages.
getUndeliveredMessagesOfSender(ms, u, c) ==
    {m \in 1..Len(ms) : /\ u \in Participants(ms[m].chatId)
                        /\ ms[m].status = "SENT"
                        /\ ms[m].senderId = u
                        /\ ms[m].chatId = c}

\* ChatService.getUndeliveredMessages(userId, chatId): the messages of the
\* chat in status SENT that the user did not send (the user is a participant
\* of the chat).
getUndeliveredMessages(ms, u, c) ==
    {m \in 1..Len(ms) : /\ u \in Participants(ms[m].chatId)
                        /\ ms[m].status = "SENT"
                        /\ ms[m].senderId # u
                        /\ ms[m].chatId = c}

\* ChatService.updateMessageStatus(messageId, status): message.status = status
\* and save, whatever the status was.
updateMessageStatus(ms, m, st) == [ms EXCEPT ![m].status = st]

\* ChatService.saveMessage(dto): the chat and the sender must exist; the row
\* is stored with the id and the status the gateway passed.
saveMessage(ms, c, u, st) ==
    IF c \notin Chats \/ u \notin Users THEN ms
    ELSE Append(ms, [chatId |-> c, senderId |-> u, status |-> st,
                     initial |-> st, joins |-> 0,
                     isPinned |-> FALSE, pinnedBy |-> "-",
                     isForwarded |-> FALSE, forwardedFromId |-> 0,
                     originalSenderId |-> "-"])

\* ------------------------------------------------------ MessageCacheService

RECENT_MESSAGES_LIMIT == 50

\* Nothing cached.  message: the status in the copy under message:<id>, for
\* the ids that have one; recent: the length of the list chat:recent:<chatId>
\* (the calls modelled push and pop entries and never read them).
NoCache == [message |-> <<>>, recent |-> [c \in Chats |-> 0]]

\* getCachedMessage(messageId): the copy's status; "none" for null.
getCachedMessage(ch, m) ==
    IF m \in DOMAIN ch.message THEN ch.message[m] ELSE "none"

\* addToRecentMessages: LPUSH, then one RPOP when LLEN > RECENT_MESSAGES_LIMIT.
addToRecentMessages(n) ==
    LET length == n + 1
    IN  IF length > RECENT_MESSAGES_LIMIT THEN length - 1 ELSE length

\* cacheMessage(message): SET message:<id> <message> EX 3600, ZADD
\* chat:messages:<chatId>, addToRecentMessages.
cacheMessage(ch, m, c, st) ==
    [ch EXCEPT !.message = (m :> st) @@ @,
               !.recent[c] = addToRecentMessages(@)]

\* cachePinnedMessage(message): ZADD chat:pinned:<chatId>, then cacheMessage.
cachePinnedMessage(ch, m, c, st) == cacheMessage(ch, m, c, st)

\* cacheMultipleMessages of n messages of chat c, those with the ids in ids
\* among them, all with status st: cacheMessage of each (their awaits taken in
\* the order of the calls).
RECURSIVE cacheMultipleMessages(_, _, _, _, _)
cacheMultipleMessages(ch, n, ids, c, st) ==
    IF n = 0 THEN ch
    ELSE LET next == [ch EXCEPT !.recent[c] = addToRecentMessages(@)]
         IN  IF ids = {} THEN cacheMultipleMessages(next, n - 1, ids, c, st)
             ELSE LET m == CHOOSE x \in ids : TRUE
                  IN  cacheMultipleMessages(
                          [next EXCEPT !.message = (m :> st) @@ @],
                          n - 1, ids \ {m}, c, st)

\* messages.slice(-RECENT_MESSAGES_LIMIT).length
SliceLast(n) == IF n > RECENT_MESSAGES_LIMIT THEN RECENT_MESSAGES_LIMIT ELSE n

\* warmUpCache(chatId, messages): cacheMultipleMessages(messages), then RPUSH
\* chat:recent:<chatId> for each of the last RECENT_MESSAGES_LIMIT messages.
warmUpCache(ch, n, ids, c, st) ==
    [cacheMultipleMessages(ch, n, ids, c, st) EXCEPT !.recent[c] = @ + SliceLast(n)]

\* Redis drops message:<id> when its TTL (MESSAGE_TTL, one hour) is over.
MessageKeyExpires(m) ==
    /\ m \in DOMAIN cache.message
    /\ cache' = [cache EXCEPT !.message = [x \in DOMAIN @ \ {m} |-> @[x]]]
    /\ UNCHANGED <<presenceVars, chatVars, sessions, consumer, idle, pubsub>>

\* Redis drops chat:recent:<chatId> when its TTL is over.
RecentListExpires(c) ==
    /\ cache.recent[c] > 0
    /\ cache' = [cache EXCEPT !.recent[c] = 0]
    /\ UNCHANGED <<presenceVars, chatVars, sessions, consumer, idle, pubsub>>

\* The longest list chat:recent:<chatId> a run is let to build.
MaxRecent == 160

CacheMessageCalled(m, c, st) ==
    /\ cache' = cacheMessage(cache, m, c, st)
    /\ UNCHANGED <<presenceVars, chatVars, sessions, consumer, idle, pubsub>>

CachePinnedMessageCalled(m, c, st) ==
    /\ cache' = cachePinnedMessage(cache, m, c, st)
    /\ UNCHANGED <<presenceVars, chatVars, sessions, consumer, idle, pubsub>>

WarmUpCacheCalled(n, ids, c, st) ==
    /\ Cardinality(ids) <= n
    /\ cache.recent[c] + n <= MaxRecent
    /\ cache' = warmUpCache(cache, n, ids, c, st)
    /\ UNCHANGED <<presenceVars, chatVars, sessions, consumer, idle, pubsub>>

\* ---------------------------------------------------- the gateway's handlers

InFlight == Cardinality({s \in Conns : op[s].kind # "idle"})

\* A client event is handled on a connected socket; one handler per socket is
\* followed at a time.
CanStart(s) == sock[s] = "open" /\ op[s] = IdleOp /\ InFlight < MaxInFlight

\* handleMessage: chat.participants.find(id => id !== userId)
Recipients(c, u) == Participants(c) \ {u}

\* isRecipientInChat that looks at connectedClients alone.
isRecipientConnected(cc, rm, c, r) == SocketsOfUser(cc, r) # {}

\* handleMessage: recipientSockets.some(socket => socket.inRoom)
isRecipientInChat(cc, rm, c, r) == \E x \in SocketsOfUser(cc, r) : x \in rm[c]

\* handleMessage: initialStatus
InitialStatus(inChat) == IF inChat THEN "DELIVERED" ELSE "SENT"

\* The sockets in the room user:<u>: every connected socket of the user
\* (handleConnection joins it, socket.io leaves it when the socket closes).
UserRoom(sk, u) == {x \in Conns : UserOf(x) = u /\ sk[x] \in {"open", "closing"}}

\* io.to(roomName) reaching the sockets of every chat room.
MembersOfAnyRoom(rm, c) == UNION {rm[x] : x \in Chats}

\* The sockets io.to(`chat:${chatId}`) reaches: the members of that room.
RoomMembers(rm, c) == rm[c]

\* handleMessage, from the event to the call of saveMessage: getChat, then the
\* initial status from the room and connectedClients as they are now.  cc and
\* rm are the connectedClients map and the adapter's rooms of the process that
\* runs the handler.
MessageRequestSeeing(s, c, cc, rm) ==
    /\ CanStart(s)
    /\ Len(messages) + Cardinality({x \in Conns : op[x].pc = "save"}) < MaxMsgs
    /\ IF c \notin Chats
       THEN /\ out' = {Reply(s, "message", c, 0, "error")}
            /\ UNCHANGED op
       ELSE \E r \in Recipients(c, UserOf(s)) :
            /\ op' = [op EXCEPT ![s] =
                         [IdleOp EXCEPT !.kind = "message", !.pc = "save",
                                        !.chat = c,
                                        !.status = InitialStatus(
                                            isRecipientInChat(cc, rm, c, r))]]
            /\ out' = {}
    /\ UNCHANGED <<presenceVars, rooms, messages, sends, otherVars>>

\* handleMessage in a gateway that holds every connection.
MessageRequest(s, c) == MessageRequestSeeing(s, c, connectedClients, rooms)

\* logger.error(text, error) in a catch block that does not rethrow.
Logged(text) == Event("log", {}, text, NoChat, 0, "error")

\* saveMessage after messageRepository.save: the two Kafka publications and
\* cacheMessage, each inside a try whose catch logs.  What is logged.
SaveMessageLogs(kafkaFails, cacheFails) ==
    (IF kafkaFails THEN {Logged("Failed to publish event")} ELSE {})
    \cup (IF cacheFails THEN {Logged("Error caching message")} ELSE {})

\* saveMessage that lets the failure of a publication or of the cache out.
SaveMessageReturnsUnlessNotifyFails(dbFails, kafkaFails, cacheFails) ==
    ~dbFails /\ ~kafkaFails /\ ~cacheFails

\* saveMessage returns the saved message unless a repository call rejects or
\* the chat or the sender is not found.
SaveMessageReturns(dbFails, kafkaFails, cacheFails) == ~dbFails

\* handleMessage that emits whether or not saveMessage returned.
MessageEmitsUnconditionally(s, c, m, st, returned) ==
    {Event("message", RoomMembers(rooms, c), "-", c, m, st),
     Event("message:ack", {s}, "-", c, m, "-")}

\* handleMessage after `await saveMessage`: io.to(roomName).emit('message',
\* message) and client.emit('message:ack'); a saveMessage that throws ends
\* the handler before them.
MessageEmits(s, c, m, st, returned) ==
    IF returned
    THEN {Event("message", RoomMembers(rooms, c), "-", c, m, st),
          Event("message:ack", {s}, "-", c, m, "-")}
    ELSE {Reply(s, "message", c, 0, "error")}

\* handleMessage from the call of saveMessage to its end.  saveMessage stores
\* the row (unless the repository fails), publishes to Kafka, caches the
\* message and returns it; the handler then emits.
MessageSaveWith(s, dbFails, kafkaFails, cacheFails) ==
    /\ op[s].kind = "message" /\ op[s].pc = "save"
    /\ messages' = IF dbFails THEN messages
                   ELSE saveMessage(messages, op[s].chat, UserOf(s), op[s].status)
    /\ cache' = IF dbFails \/ cacheFails THEN cache
                ELSE cacheMessage(cache, Len(messages'), op[s].chat, op[s].status)
    /\ out' = MessageEmits(s, op[s].chat, Len(messages) + 1, op[s].status,
                           SaveMessageReturns(dbFails, kafkaFails, cacheFails))
               \cup (IF dbFails THEN {}
                     ELSE SaveMessageLogs(kafkaFails, cacheFails))
    /\ op' = [op EXCEPT ![s] = IdleOp]
    /\ UNCHANGED <<presenceVars, rooms, sends, sessions, consumer, idle, pubsub>>

\* handleMessage, when saveMessage has stored the row and nothing has failed.
MessageSave(s) == MessageSaveWith(s, FALSE, FALSE, FALSE)

\* JoinAllowed without the participant check.
JoinAllowedAnyUser(c, u) == c \in Chats

\* handleChatJoin: the chat exists and the user is one of its participants.
JoinAllowed(c, u) == c \in Chats /\ u \in Participants(c)

\* handleChatJoin, from the event to the call of getUndeliveredMessages:
\* getChat, the participant check, client.join(roomName).
JoinRequest(s, c) ==
    /\ CanStart(s)
    /\ IF ~JoinAllowed(c, UserOf(s))
       THEN /\ out' = {Reply(s, "chat:join", c, 0, "error")}
            /\ UNCHANGED <<op, rooms>>
       ELSE /\ rooms' = [rooms EXCEPT ![c] = @ \cup {s}]
            /\ op' = [op EXCEPT ![s] =
                         [IdleOp EXCEPT !.kind = "join", !.pc = "query",
                                        !.chat = c]]
            /\ out' = {}
    /\ UNCHANGED <<presenceVars, messages, sends, otherVars>>

\* How handleChatJoin goes on with the messages still to update.
JoinNext(s, c, left) ==
    IF left = {} THEN IdleOp
    ELSE [IdleOp EXCEPT !.kind = "join", !.pc = "update", !.chat = c,
                        !.list = left]

JoinDone(s, c, left) ==
    IF left = {} THEN {Reply(s, "chat:join", c, 0, "ok")} ELSE {}

\* handleChatJoin: undeliveredMessages = await getUndeliveredMessages(...)
JoinQuery(s) ==
    /\ op[s].kind = "join" /\ op[s].pc = "query"
    /\ LET list == getUndeliveredMessages(messages, UserOf(s), op[s].chat)
       IN  /\ op' = [op EXCEPT ![s] = JoinNext(s, op[s].chat, list)]
           /\ out' = JoinDone(s, op[s].chat, list)
    /\ UNCHANGED <<presenceVars, rooms, messages, sends, otherVars>>

\* handleChatJoin, one turn of the loop: updateMessageStatus(message.id,
\* DELIVERED), then message:status to every socket of the sender that is in
\* connectedClients (the rows come back from the query in no particular
\* order); cc is the connectedClients map of the process that runs the handler
JoinUpdateSeeing(s, m, cc) ==
    /\ op[s].kind = "join" /\ op[s].pc = "update"
    /\ m \in op[s].list
    /\ messages' = [updateMessageStatus(messages, m, "DELIVERED")
                       EXCEPT ![m].joins = @ + 1]
    /\ LET senderSockets == SocketsOfUser(cc, messages[m].senderId)
           left == op[s].list \ {m}
       IN  /\ out' = (IF senderSockets = {} THEN {}
                      ELSE {Event("message:status", senderSockets, "-",
                                  messages[m].chatId, m, "DELIVERED")})
                     \cup JoinDone(s, op[s].chat, left)
           /\ op' = [op EXCEPT ![s] = JoinNext(s, op[s].chat, left)]
    /\ UNCHANGED <<presenceVars, rooms, sends, otherVars>>

\* handleChatJoin's loop in a gateway that holds every connection.
JoinUpdate(s, m) == JoinUpdateSeeing(s, m, connectedClients)

\* handleUsersList: for every user of getAllUsers, isOnline is
\* Array.from(connectedClients.values()).some(client => client.userId === user.id)
handleUsersList(cc) == [u \in Users |-> SocketsOfUser(cc, u) # {}]

\* handleChatLeave: client.leave(roomName), then socket.leave(roomName) for
\* every socket of the user in connectedClients
ChatLeave(s, c) ==
    /\ sock[s] = "open"
    /\ rooms' = [rooms EXCEPT ![c] =
                    @ \ ({s} \cup SocketsOfUser(connectedClients, UserOf(s)))]
    /\ out' = {Reply(s, "chat:leave", c, 0, "ok")}
    /\ UNCHANGED <<presenceVars, messages, op, sends, otherVars>>

\* ReadAllowed without the participant check.
ReadAllowedAnyUser(ms, m, u) == m \in 1..Len(ms)

\* handleMessageRead: the message exists and the user is a participant of its
\* chat; the status of the message is not looked at.
ReadAllowed(ms, m, u) == m \in 1..Len(ms) /\ u \in Participants(ms[m].chatId)

\* handleMessageRead, from the event to the call of updateMessageStatus:
\* getMessage, getChat, the participant check.
ReadRequest(s, m) ==
    /\ CanStart(s)
    /\ IF ~ReadAllowed(messages, m, UserOf(s))
       THEN /\ out' = {Reply(s, "message:read", "-", m, "error")}
            /\ UNCHANGED op
       ELSE /\ op' = [op EXCEPT ![s] =
                         [IdleOp EXCEPT !.kind = "read", !.pc = "update",
                                        !.msg = m,
                                        !.status = messages[m].status]]
            /\ out' = {}
    /\ UNCHANGED <<presenceVars, rooms, messages, sends, otherVars>>

\* handleMessageRead, when updateMessageStatus(messageId, READ) has stored the
\* row: io.to(`user:${senderId}`).emit('message:status', ...) and the reply
\* {status: 'ok'}
ReadUpdate(s) ==
    /\ op[s].kind = "read" /\ op[s].pc = "update"
    /\ messages' = updateMessageStatus(messages, op[s].msg, "READ")
    /\ LET m == op[s].msg
       IN  out' = {Event("message:status", UserRoom(sock, messages[m].senderId),
                         "-", messages[m].chatId, m, "READ"),
                   Reply(s, "message:read", "-", m, "ok")}
    /\ op' = [op EXCEPT ![s] = IdleOp]
    /\ UNCHANGED <<presenceVars, rooms, sends, otherVars>>

\* ---------------------------------- connections with a Presence Store that
\* ---------------------------------- answers before anything else happens

\* The three commands of setOnline.
SetOnlineAll(r, u, s) == SaddSocket(SaddOnline(SetPresence(r, u, "online"), u), u, s)

\* setOffline that reads the sockets before it removes its own.
SetOfflineAllReadingFirst(r, u, s) ==
    IF Cardinality(r.sockets[u]) = 0
    THEN SremOnline(SetPresence(SremSocket(r, u, s), u, "offline"), u)
    ELSE SremSocket(r, u, s)

\* The commands of setOffline.
SetOfflineAll(r, u, s) ==
    LET r1 == SremSocket(r, u, s)
    IN  IF Cardinality(r1.sockets[u]) = 0
        THEN SremOnline(SetPresence(r1, u, "offline"), u)
        ELSE r1

\* ClientConnects followed at once by the whole of handleConnection.
ClientConnectsPromptly(s, tok) ==
    /\ sock[s] = "new"
    /\ token' = [token EXCEPT ![s] = tok]
    /\ IF TokenMiddleware(tok) = "error"
       THEN /\ sock' = [sock EXCEPT ![s] = "rejected"]
            /\ UNCHANGED <<connectedClients, pcOn, redis, onlineBroadcasts>>
       ELSE /\ sock' = [sock EXCEPT ![s] = "open"]
            /\ connectedClients' = Append(connectedClients, s)
            /\ redis' = SetOnlineAll(redis, UserOf(s), s)
            /\ onlineBroadcasts' = broadcastUserStatus(onlineBroadcasts, UserOf(s))
            /\ pcOn' = [pcOn EXCEPT ![s] = "done"]
    /\ out' = {}
    /\ UNCHANGED <<pcOff, pcClean, offlineBroadcasts, rooms, messages, op,
                   sends, otherVars>>

\* SocketCloses followed at once by the whole of the setOffline it started.
SocketClosesPromptly(s) ==
    /\ sock[s] \in {"open", "closing"}
    /\ LET g == OnDisconnectEvent(GatewayState, s)
           started == g.off[s] = "srem" /\ pcOff[s] # "srem"
       IN  /\ connectedClients' = g.cc
           /\ offlineBroadcasts' = g.bc
           /\ sock' = g.sock
           /\ rooms' = g.rm
           /\ pcOff' = IF started THEN [pcOff EXCEPT ![s] = "done"] ELSE pcOff
           /\ redis' = IF started THEN SetOfflineAll(redis, UserOf(s), s) ELSE redis
    /\ out' = {}
    /\ UNCHANGED <<token, pcOn, pcClean, onlineBroadcasts, messages, op,
                   sends, otherVars>>

\* ------------------------------------------------- inactivity of connections

\* Nothing older than maxInactiveTime (5 * 60 * 1000 ms): the entry was made
\* and the last event was received less than that ago.
JustNow == [entry |-> FALSE, event |-> FALSE]

\* More than maxInactiveTime passes with no event received on any socket.
MaxInactiveTimePasses ==
    /\ \E s \in Registered(connectedClients) : idle[s] # [entry |-> TRUE, event |-> TRUE]
    /\ idle' = [s \in Conns |-> IF s \in Registered(connectedClients)
                                THEN [entry |-> TRUE, event |-> TRUE]
                                ELSE idle[s]]
    /\ UNCHANGED <<presenceVars, chatVars, sessions, consumer, pubsub, cache>>

\* handleGetOnlineUsers, the handler of user:get-online: an event received on a
\* connected socket.  Like every other handler it leaves lastActivity of the
\* socket's entry as handleConnection wrote it.
handleGetOnlineUsers(s) ==
    /\ sock[s] = "open"
    /\ out' = {Reply(s, "user:get-online", NoChat, 0, "ok")}
    /\ idle' = [idle EXCEPT ![s].event = FALSE]
    /\ UNCHANGED <<presenceVars, rooms, messages, op, sends, sessions, consumer, pubsub, cache>>

\* isInactive = now - client.lastActivity > maxInactiveTime, counted over the
\* entries of the map.
InactiveEntries ==
    Cardinality({s \in Registered(connectedClients) : idle[s].entry})

\* A run of cleanupDeadConnections at the present time.
cleanupDeadConnectionsNow(syncClose) ==
    cleanupDeadConnections(InactiveEntries, syncClose)

\* ------------------------------------- an emit of message:status that throws

\* The rows after a catch block that undoes the write.
RolledBack(stored, before) == before

\* The rows after the catch blocks of handleMessageRead and handleChatJoin:
\* they log and answer with an error, and write nothing.
AfterEmitFailure(stored, before) == stored

\* handleMessageRead: updateMessageStatus(messageId, READ) has stored the row
\* and the emit to user:<senderId> throws; the catch returns {status: 'error'}.
ReadUpdateEmitFails(s) ==
    /\ op[s].kind = "read" /\ op[s].pc = "update"
    /\ messages' = AfterEmitFailure(
                       updateMessageStatus(messages, op[s].msg, "READ"), messages)
    /\ out' = {Reply(s, "message:read", "-", op[s].msg, "error")}
    /\ op' = [op EXCEPT ![s] = IdleOp]
    /\ UNCHANGED <<presenceVars, rooms, sends, otherVars>>

\* handleChatJoin, one turn of the loop: updateMessageStatus(message.id,
\* DELIVERED) has stored the row and the emit to a socket of the sender throws;
\* the catch rethrows, which ends the handler with an error.
JoinUpdateEmitFails(s, m) ==
    /\ op[s].kind = "join" /\ op[s].pc = "update"
    /\ m \in op[s].list
    /\ SocketsOfUser(connectedClients, messages[m].senderId) # {}
    /\ messages' = AfterEmitFailure(
                       [updateMessageStatus(messages, m, "DELIVERED")
                           EXCEPT ![m].joins = @ + 1], messages)
    /\ out' = {Reply(s, "chat:join", op[s].chat, 0, "error")}
    /\ op' = [op EXCEPT ![s] = IdleOp]
    /\ UNCHANGED <<presenceVars, rooms, sends, otherVars>>

\* ------------------------------------------- Presence Store reads that throw

\* isUserOnline that answers from the store's last known content when
\* SISMEMBER throws.
isUserOnlineIgnoringFailure(u, sismemberThrows) == isUserOnline(u)

\* isUserOnline: SISMEMBER users:online <u>, isMember === 1; the catch logs
\* and returns false.
isUserOnlineReturns(u, sismemberThrows) ==
    IF sismemberThrows THEN FALSE ELSE isUserOnline(u)

\* getUserSockets: SMEMBERS user:sockets:<u>; the catch logs and returns [].
getUserSocketsReturns(u, smembersThrows) ==
    IF smembersThrows THEN {} ELSE getUserSockets(u)

\* What a call of the presence service returned: the call, the user, whether
\* Redis threw (1) or not (0), the boolean returned, the sockets returned.
Return(call, u, threw, value, sockets) ==
    Event("return", sockets, call, u, IF threw THEN 1 ELSE 0, value)

\* A call of isUserOnline(u), by any caller at any time.
IsUserOnlineCalled(u, sismemberThrows) ==
    /\ out' = {Return("isUserOnline", u, sismemberThrows,
                      IF isUserOnlineReturns(u, sismemberThrows)
                      THEN "true" ELSE "false", {})}
    /\ UNCHANGED <<presenceVars, rooms, messages, op, sends, otherVars>>

\* A call of getUserSockets(u), by any caller at any time.
GetUserSocketsCalled(u, smembersThrows) ==
    /\ out' = {Return("getUserSockets", u, smembersThrows, "-",
                      getUserSocketsReturns(u, smembersThrows))}
    /\ UNCHANGED <<presenceVars, rooms, messages, op, sends, otherVars>>

\* ------------------------------------ setOnline and setOffline called again

\* How many times in a row a call is made with the same arguments.
MaxCalls == 2

\* The last call of the presence service: its name, its arguments, and how
\* many times in a row it has now been made with these arguments.
Call(name, u, s, nth) == Event("call", {s}, name, u, nth, "-")

Nth(name, u, s) ==
    IF \E k \in 1..MaxCalls : out = {Call(name, u, s, k)}
    THEN (CHOOSE k \in 1..MaxCalls : out = {Call(name, u, s, k)}) + 1
    ELSE 1

\* userPresenceService.setOnline(userId, socketId), run to its end.
SetOnlineCalled(s) ==
    /\ Nth("setOnline", UserOf(s), s) <= MaxCalls
    /\ redis' = SetOnlineAll(redis, UserOf(s), s)
    /\ out' = {Call("setOnline", UserOf(s), s, Nth("setOnline", UserOf(s), s))}
    /\ UNCHANGED <<sock, token, connectedClients, pcOn, pcOff, pcClean,
                   onlineBroadcasts, offlineBroadcasts, rooms, messages, op,
                   sends, otherVars>>

\* userPresenceService.setOffline(userId, socketId), run to its end.
SetOfflineCalled(s) ==
    /\ Nth("setOffline", UserOf(s), s) <= MaxCalls
    /\ redis' = SetOfflineAll(redis, UserOf(s), s)
    /\ out' = {Call("setOffline", UserOf(s), s, Nth("setOffline", UserOf(s), s))}
    /\ UNCHANGED <<sock, token, connectedClients, pcOn, pcOff, pcClean,
                   onlineBroadcasts, offlineBroadcasts, rooms, messages, op,
                   sends, otherVars>>

\* ------------------------------------- several message events of one socket

\* How many message events a socket sends.
MaxSends == 2

\* A message event arrives on s while earlier ones of s may still be waiting
\* for saveMessage (nothing makes a handler wait for the one before it):
\* handleMessage to the call of saveMessage.  row is 0 until the row is stored.
SendReceived(s, c) ==
    /\ sock[s] = "open"
    /\ Len(sends[s]) < MaxSends
    /\ c \in Chats
    /\ \E r \in Recipients(c, UserOf(s)) :
         sends' = [sends EXCEPT ![s] =
                      Append(@, [chat |-> c, row |-> 0,
                                 status |-> InitialStatus(
                                     isRecipientInChat(connectedClients, rooms,
                                                       c, r))])]
    /\ out' = {}
    /\ UNCHANGED <<presenceVars, rooms, messages, op, otherVars>>

\* saveMessage of the i-th message event of s has stored the row: emit
\* 'message' to the room and message:ack to s.
SendSaved(s, i) ==
    /\ i \in 1..Len(sends[s])
    /\ sends[s][i].row = 0
    /\ messages' = saveMessage(messages, sends[s][i].chat, UserOf(s),
                               sends[s][i].status)
    /\ sends' = [sends EXCEPT ![s][i].row = Len(messages')]
    /\ cache' = cacheMessage(cache, Len(messages'), sends[s][i].chat,
                             sends[s][i].status)
    /\ out' = {Event("message", RoomMembers(rooms, sends[s][i].chat), "-",
                     sends[s][i].chat, Len(messages'), sends[s][i].status),
               Event("message:ack", {s}, "-", sends[s][i].chat, Len(messages'),
                     "-")}
    /\ UNCHANGED <<presenceVars, rooms, op, sessions, consumer, idle, pubsub>>

\* ------------------------------------- two server processes, one Redis and
\* ------------------------------------- one database (SocketAdapter's Redis
\* ------------------------------------- adapter carries io.emit and io.to)

\* The server process the load balancer gave the socket to.
ProcOf(s) == IF s = "b2" THEN "p2" ELSE "p1"

\* The connectedClients map of process p: connectedClients holds the entries
\* of both processes.
LocalClients(cc, p) == SelectSeq(cc, LAMBDA x : ProcOf(x) = p)

\* io.sockets.adapter.rooms of process p: the sockets p itself holds.
LocalRooms(rm, p) == [c \in Chats |-> {x \in rm[c] : ProcOf(x) = p}]

\* handleDisconnect in the process that holds s.
handleDisconnectOn(g, s) ==
    LET p == ProcOf(s)
        r == handleDisconnect([g EXCEPT !.cc = LocalClients(@, p)], s)
    IN  [r EXCEPT !.cc = SelectSeq(g.cc, LAMBDA x : \/ ProcOf(x) # p
                                                   \/ x \in Registered(r.cc))]

\* The socket's disconnect event with its two listeners, in the process that
\* holds s.
OnDisconnectEventOn(g, s) ==
    LET closed == [g EXCEPT !.sock[s] = "closed",
                            !.rm = LeaveAllRooms(@, {s})]
    IN  handleDisconnectOn(handleDisconnectOn(closed, s), s)

\* SocketClosesPromptly in the process that holds s.
ClusterSocketCloses(s) ==
    /\ sock[s] \in {"open", "closing"}
    /\ LET g == OnDisconnectEventOn(GatewayState, s)
           started == g.off[s] = "srem" /\ pcOff[s] # "srem"
       IN  /\ connectedClients' = g.cc
           /\ offlineBroadcasts' = g.bc
           /\ sock' = g.sock
           /\ rooms' = g.rm
           /\ pcOff' = IF started THEN [pcOff EXCEPT ![s] = "done"] ELSE pcOff
           /\ redis' = IF started THEN SetOfflineAll(redis, UserOf(s), s) ELSE redis
    /\ out' = {}
    /\ UNCHANGED <<token, pcOn, pcClean, onlineBroadcasts, messages, op,
                   sends, otherVars>>

\* handleMessage in the process that holds s.
ClusterMessageRequest(s, c) ==
    MessageRequestSeeing(s, c, LocalClients(connectedClients, ProcOf(s)),
                         LocalRooms(rooms, ProcOf(s)))

\* handleChatJoin's loop in the process that holds s.
ClusterJoinUpdate(s, m) ==
    JoinUpdateSeeing(s, m, LocalClients(connectedClients, ProcOf(s)))

\* ------------------------------------------------- pinning and forwarding

\* pinMessage without the check of message.isPinned.
PinErrorIgnoringPinned(ms, m, u) ==
    IF m \notin 1..Len(ms) THEN "NotFound"
    ELSE IF u \notin Participants(ms[m].chatId) THEN "Conflict"
    ELSE "none"

\* pinMessage, what it throws: NotFoundException without the message,
\* ConflictException for a user who is not a participant of the message's chat
\* and for a message that is pinned.
PinError(ms, m, u) ==
    IF m \notin 1..Len(ms) THEN "NotFound"
    ELSE IF u \notin Participants(ms[m].chatId) THEN "Conflict"
    ELSE IF ms[m].isPinned THEN "Conflict"
    ELSE "none"

\* unpinMessage, what it throws: as pinMessage, with ConflictException for a
\* message that is not pinned.
UnpinError(ms, m, u) ==
    IF m \notin 1..Len(ms) THEN "NotFound"
    ELSE IF u \notin Participants(ms[m].chatId) THEN "Conflict"
    ELSE IF ~ms[m].isPinned THEN "Conflict"
    ELSE "none"

\* pinMessage: isPinned = true, pinnedBy = userId, save.
pinMessage(ms, m, u) == [ms EXCEPT ![m].isPinned = TRUE, ![m].pinnedBy = u]

\* unpinMessage: isPinned = false, pinnedBy = null, save.
unpinMessage(ms, m) == [ms EXCEPT ![m].isPinned = FALSE, ![m].pinnedBy = "-"]

\* handleMessagePin / handleMessageUnpin, from the event to the save: the
\* message and its chat are read and checked; an exception becomes the reply
\* {status: 'error'}.
PinRequest(s, kind, m) ==
    /\ CanStart(s)
    /\ LET error == IF kind = "pin" THEN PinError(messages, m, UserOf(s))
                    ELSE UnpinError(messages, m, UserOf(s))
       IN  IF error # "none"
           THEN /\ out' = {Reply(s, "message:" \o kind, "-", m, error)}
                /\ UNCHANGED op
           ELSE /\ op' = [op EXCEPT ![s] =
                             [IdleOp EXCEPT !.kind = kind, !.pc = "save",
                                            !.msg = m,
                                            !.chat = messages[m].chatId]]
                /\ out' = {}
    /\ UNCHANGED <<presenceVars, rooms, messages, sends, otherVars>>

\* handleMessagePin / handleMessageUnpin, when the save has stored the row:
\* message:pinned or message:unpinned to the chat room, and the reply.
PinSave(s) ==
    /\ op[s].kind \in {"pin", "unpin"} /\ op[s].pc = "save"
    /\ messages' = IF op[s].kind = "pin"
                   THEN pinMessage(messages, op[s].msg, UserOf(s))
                   ELSE unpinMessage(messages, op[s].msg)
    /\ out' = {Event(IF op[s].kind = "pin" THEN "message:pinned"
                     ELSE "message:unpinned",
                     RoomMembers(rooms, op[s].chat), "-", op[s].chat, op[s].msg,
                     messages'[op[s].msg].pinnedBy),
               Reply(s, "message:" \o op[s].kind, "-", op[s].msg, "ok")}
    /\ cache' = IF op[s].kind = "pin"
                THEN cachePinnedMessage(cache, op[s].msg,
                                        messages'[op[s].msg].chatId,
                                        messages'[op[s].msg].status)
                ELSE cache
    /\ op' = [op EXCEPT ![s] = IdleOp]
    /\ UNCHANGED <<presenceVars, rooms, sends, sessions, consumer, idle, pubsub>>

\* How many forwarded messages are made.
MaxForwards == 2

\* forwardMessage without the check of the target chat's participants.
ForwardErrorIgnoringTarget(ms, m, c, u) ==
    IF m \notin 1..Len(ms) THEN "NotFound"
    ELSE IF u \notin Participants(ms[m].chatId) THEN "Conflict"
    ELSE IF c \notin Chats THEN "NotFound"
    ELSE "none"

\* forwardMessage, what it throws: NotFoundException without the original
\* message or the target chat, ConflictException for a user who is not a
\* participant of the original message's chat or of the target chat.
ForwardError(ms, m, c, u) ==
    IF m \notin 1..Len(ms) THEN "NotFound"
    ELSE IF u \notin Participants(ms[m].chatId) THEN "Conflict"
    ELSE IF c \notin Chats THEN "NotFound"
    ELSE IF u \notin Participants(c) THEN "Conflict"
    ELSE "none"

\* forwardMessage: messageRepository.create({chatId: toChatId, senderId:
\* userId, status: SENT, isForwarded: true, forwardedFromId: originalMessage.id,
\* originalSenderId: originalMessage.senderId}) and save.
forwardMessage(ms, m, c, u) ==
    Append(ms, [chatId |-> c, senderId |-> u, status |-> "SENT",
                initial |-> "SENT", joins |-> 0,
                isPinned |-> FALSE, pinnedBy |-> "-",
                isForwarded |-> TRUE, forwardedFromId |-> m,
                originalSenderId |-> ms[m].senderId])

\* handleMessageForward, from the event to the save of the new message.
ForwardRequest(s, m, c) ==
    /\ CanStart(s)
    /\ Cardinality({i \in MsgIds : messages[i].isForwarded})
         + Cardinality({x \in Conns : op[x].kind = "forward"}) < MaxForwards
    /\ LET error == ForwardError(messages, m, c, UserOf(s))
       IN  IF error # "none"
           THEN /\ out' = {Reply(s, "message:forward", c, m, error)}
                /\ UNCHANGED op
           ELSE /\ op' = [op EXCEPT ![s] =
                             [IdleOp EXCEPT !.kind = "forward", !.pc = "save",
                                            !.msg = m, !.chat = c]]
                /\ out' = {}
    /\ UNCHANGED <<presenceVars, rooms, messages, sends, otherVars>>

\* handleMessageForward, when the save has stored the new message:
\* 'message' to the room of the target chat, and the reply.
ForwardSave(s) ==
    /\ op[s].kind = "forward" /\ op[s].pc = "save"
    /\ messages' = forwardMessage(messages, op[s].msg, op[s].chat, UserOf(s))
    /\ out' = {Event("message", RoomMembers(rooms, op[s].chat), "-", op[s].chat,
                     Len(messages'), "SENT"),
               Reply(s, "message:forward", op[s].chat, op[s].msg, "ok")}
    /\ op' = [op EXCEPT ![s] = IdleOp]
    /\ UNCHANGED <<presenceVars, rooms, sends, otherVars>>

\* ----------------------------------------------------------- SessionService

\* What generateSessionId can return (`${Date.now()}-${random}`); an id is
\* returned once.
SessionIds == {"s1", "s2"}

SessionTokens == {"t1", "t2"}

SessionUsers == {"A", "B"}

\* getSessionIdFromToken: Buffer.from(token).toString('base64').substring(0, 20).
\* The base64 alphabet has no '-', which every generated session id contains,
\* so the result is never a generated id.
getSessionIdFromToken(tok) == IF tok = "t1" THEN "dDE=" ELSE "dDI="

\* The names a key session:<name> is read or deleted under.
SessionKeys == SessionIds \cup {getSessionIdFromToken(tok) : tok \in SessionTokens}

\* No value under a key; what getSession returns as null.
NoSession == [userId |-> "-", token |-> "-", expired |-> FALSE]

\* keys: session:<name>, with "expired" for expiresAt < Date.now();
\* index: user:sessions:<u>; created: who createSession returned the id for.
NoSessions ==
    [keys    |-> [k \in SessionKeys |-> NoSession],
     index   |-> [u \in Users |-> {}],
     created |-> [k \in SessionIds |-> "-"]]

\* redisService.del(SESSION_PREFIX + name)
DelSessionKey(st, k) == [st EXCEPT !.keys[k] = NoSession]

\* getSession(sessionId), what it returns: the stored session, or null when
\* there is none, when it is past expiresAt, or when Redis throws.
getSession(st, id) ==
    IF st.keys[id] # NoSession /\ ~st.keys[id].expired THEN st.keys[id]
    ELSE NoSession

\* getSession(sessionId), what it leaves: on a stored session past expiresAt
\* it awaits deleteSession, which starts with getSession of the same id; the
\* two call each other until Redis has dropped the key by its TTL, and return
\* then.  The index is not touched on this path.
AfterGetSession(st, id) ==
    IF st.keys[id] # NoSession /\ st.keys[id].expired
    THEN DelSessionKey(st, id) ELSE st

validateSession(st, id) == getSession(st, id) # NoSession

\* createSession: SET session:<id>, SADD user:sessions:<u> <id>, EXPIRE.
createSession(st, u, tok, id) ==
    [st EXCEPT !.keys[id] = [userId |-> u, token |-> tok, expired |-> FALSE],
               !.index[u] = @ \cup {id},
               !.created[id] = u]

\* deleteSession that leaves the id in user:sessions:<u>.
deleteSessionKeepsIndex(st, id) ==
    IF getSession(st, id) = NoSession THEN AfterGetSession(st, id)
    ELSE DelSessionKey(st, id)

\* deleteSession: getSession; nothing when it is null; else DEL session:<id>
\* and SREM user:sessions:<session.userId> <id>.
deleteSession(st, id) ==
    LET session == getSession(st, id)
    IN  IF session = NoSession THEN AfterGetSession(st, id)
        ELSE [DelSessionKey(st, id) EXCEPT !.index[session.userId] = @ \ {id}]

\* getUserSessions, what it returns: getSession of every member of
\* user:sessions:<u>, without the nulls.
getUserSessions(st, u) ==
    {getSession(st, id) : id \in st.index[u]} \ {NoSession}

\* getUserSessions, what it leaves.
AfterGetUserSessions(st, u) ==
    [st EXCEPT !.keys = [k \in SessionKeys |->
        IF k \in st.index[u] THEN AfterGetSession(st, k).keys[k] ELSE @[k]]]

\* deleteAllUserSessions: for every session of getUserSessions,
\* DEL session:<getSessionIdFromToken(session.token)>; then DEL user:sessions:<u>.
deleteAllUserSessions(st, u) ==
    LET deleted == {getSessionIdFromToken(session.token) :
                        session \in getUserSessions(st, u)}
        st1 == AfterGetUserSessions(st, u)
    IN  [st1 EXCEPT !.keys = [k \in SessionKeys |->
                                 IF k \in deleted THEN NoSession ELSE @[k]],
                    !.index[u] = {}]

\* A call of the session service: its name, its argument, what it returned.
SessionCall(name, arg, value, set) == Event("session", set, name, arg, 0, value)

SessionUnchanged ==
    UNCHANGED <<presenceVars, rooms, messages, op, sends, consumer, idle, pubsub, cache>>

CreateSessionCalled(u, tok) ==
    /\ \E k \in SessionIds : sessions.created[k] = "-"
    /\ LET id == CHOOSE k \in SessionIds : sessions.created[k] = "-"
       IN  /\ sessions' = createSession(sessions, u, tok, id)
           /\ out' = {SessionCall("createSession", u, id, {})}
    /\ SessionUnchanged

GetSessionCalled(id) ==
    /\ sessions' = AfterGetSession(sessions, id)
    /\ out' = {SessionCall("getSession", id, getSession(sessions, id).userId, {})}
    /\ SessionUnchanged

ValidateSessionCalled(id) ==
    /\ sessions' = AfterGetSession(sessions, id)
    /\ out' = {SessionCall("validateSession", id,
                           IF validateSession(sessions, id) THEN "true"
                           ELSE "false", {})}
    /\ SessionUnchanged

GetUserSessionsCalled(u) ==
    /\ sessions' = AfterGetUserSessions(sessions, u)
    /\ out' = {SessionCall("getUserSessions", u, "-",
                           {session.token : session \in getUserSessions(sessions, u)})}
    /\ SessionUnchanged

DeleteSessionCalled(id) ==
    /\ sessions' = deleteSession(sessions, id)
    /\ out' = {SessionCall("deleteSession", id, "-", {})}
    /\ SessionUnchanged

DeleteAllUserSessionsCalled(u) ==
    /\ sessions' = deleteAllUserSessions(sessions, u)
    /\ out' = {SessionCall("deleteAllUserSessions", u, "-", {})}
    /\ SessionUnchanged

\* Time passes session.expiresAt while Redis still holds the key.
SessionExpiresAtPasses(id) ==
    /\ sessions.keys[id] # NoSession /\ ~sessions.keys[id].expired
    /\ sessions' = [sessions EXCEPT !.keys[id].expired = TRUE]
    /\ out' = {}
    /\ SessionUnchanged

\* Redis drops session:<id> when its TTL, floor(expiresIn) seconds, is over.
SessionKeyExpires(id) ==
    /\ sessions.keys[id] # NoSession
    /\ sessions' = DelSessionKey(sessions, id)
    /\ out' = {}
    /\ SessionUnchanged

\* ------------------------------------------------------ KafkaConsumerService

Topics == {"MESSAGE_CREATED", "USER_ONLINE"}

\* The handler subscribeToTopics binds for every topic, and the handlers other
\* services pass to registerHandler.
BuiltinHandler == "builtin"

ExtraHandlers == {"h1", "h2"}

Handlers == {BuiltinHandler} \cup ExtraHandlers

\* The length of a topic's handler array and the number of events received.
MaxHandlers == 3

MaxEvents == 2

\* No processEvent call yet.
NoEvent ==
    [topic |-> "-", handlers |-> <<>>, throwers |-> {},
     calls |-> [h \in Handlers |-> 0], rejected |-> FALSE]

\* handlers: the Map topic -> handler array after onModuleInit; received: the
\* events delivered so far; errorsLogged: the handler errors logged before the
\* last event; last: what the last processEvent call did.
ConsumerStarted ==
    [handlers     |-> [t \in Topics |-> <<BuiltinHandler>>],
     received     |-> 0,
     errorsLogged |-> 0,
     last         |-> NoEvent]

\* How many times h is in the array hs.
RECURSIVE Occurrences(_, _)
Occurrences(hs, h) ==
    IF hs = <<>> THEN 0
    ELSE (IF Head(hs) = h THEN 1 ELSE 0) + Occurrences(Tail(hs), h)

\* handlers.indexOf(handler) and handlers.splice(index, 1)
RECURSIVE SpliceFirst(_, _)
SpliceFirst(hs, h) ==
    IF hs = <<>> THEN <<>>
    ELSE IF Head(hs) = h THEN Tail(hs)
    ELSE <<Head(hs)>> \o SpliceFirst(Tail(hs), h)

\* An element of handlers.map without the try/catch: a handler that throws
\* makes the promise of its element reject.
ElementWithoutCatch(h, throwers) ==
    IF h \in throwers THEN "rejected" ELSE "fulfilled"

\* An element of handlers.map(async handler => { try { await handler(event) }
\* catch { logger.error } }): the promise is fulfilled whether the handler
\* returns or throws.
Element(h, throwers) == "fulfilled"

\* handlers.map(...): every element of the array is invoked, in order, and
\* gives a promise.
RECURSIVE MapHandlers(_, _)
MapHandlers(hs, throwers) ==
    IF hs = <<>> THEN <<>>
    ELSE <<[handler |-> Head(hs), promise |-> Element(Head(hs), throwers)]>>
             \o MapHandlers(Tail(hs), throwers)

\* processEvent(topic, event), with the handlers that throw on this event:
\* the record of the call.  Without handlers it warns and returns.
\* Promise.all rejects when one of the promises is rejected.
processEvent(c, topic, throwers) ==
    LET hs == c.handlers[topic]
        promises == IF Len(hs) = 0 THEN <<>> ELSE MapHandlers(hs, throwers)
    IN  [topic    |-> topic,
         handlers |-> hs,
         throwers |-> throwers \cap {hs[i] : i \in 1..Len(hs)},
         calls    |-> [h \in Handlers |->
                          Cardinality({i \in 1..Len(promises) :
                                          promises[i].handler = h})],
         rejected |-> \E i \in 1..Len(promises) :
                          promises[i].promise = "rejected"]

ConsumerUnchanged ==
    UNCHANGED <<presenceVars, chatVars, sessions, idle, pubsub, cache>>

\* registerHandler(topic, handler)
RegisterHandler(topic, h) ==
    /\ Len(consumer.handlers[topic]) < MaxHandlers
    /\ consumer' = [consumer EXCEPT !.handlers[topic] = Append(@, h)]
    /\ ConsumerUnchanged

\* unregisterHandler(topic, handler)
UnregisterHandler(topic, h) ==
    /\ consumer' = [consumer EXCEPT !.handlers[topic] = SpliceFirst(@, h)]
    /\ ConsumerUnchanged

\* The adapter delivers an event of the topic to the callback subscribeToTopic
\* gave it, which awaits processEvent.
EventReceived(topic, throwers) ==
    /\ consumer.received < MaxEvents
    /\ consumer' = [consumer EXCEPT
                       !.received = @ + 1,
                       !.errorsLogged = @ + Cardinality(consumer.last.throwers),
                       !.last = processEvent(consumer, topic, throwers)]
    /\ ConsumerUnchanged

\* ------------------------------------------------ RedisService, pub/sub

Channels == {"ch1", "ch2"}

RedisHandlers == {"g1", "g2"}

\* The listeners one subscriber connection is given in a run.
MaxListeners == 2

\* A message nobody has published.
NoMessage == [channel |-> "-", invoked |-> <<>>]

\* The subscriber connection after onModuleInit: no channel, no listener.
NoSubscriptions == [channels |-> {}, listeners |-> <<>>, last |-> NoMessage]

\* subscribe(channel, handler): SUBSCRIBE channel on the subscriber
\* connection, then subscriber.on('message', handler).  "for" keeps the channel
\* the handler was given with; the connection keeps no such thing.
RedisSubscribe(ch, h) ==
    /\ Len(pubsub.listeners) < MaxListeners
    /\ pubsub' = [pubsub EXCEPT
                     !.channels = @ \cup {ch},
                     !.listeners = Append(@, [handler |-> h, for |-> ch])]
    /\ UNCHANGED <<presenceVars, chatVars, sessions, consumer, idle, cache>>

\* unsubscribe(channel): UNSUBSCRIBE channel; the listeners stay.
RedisUnsubscribe(ch) ==
    /\ ch \in pubsub.channels
    /\ pubsub' = [pubsub EXCEPT !.channels = @ \ {ch}]
    /\ UNCHANGED <<presenceVars, chatVars, sessions, consumer, idle, cache>>

\* The listeners of the connection's 'message' event, which the connection
\* emits for a message on any channel it is subscribed to: every listener, in
\* the order of registration, once per registration.
MessageListeners(ps, ch) == IF ch \in ps.channels THEN ps.listeners ELSE <<>>

\* publish(channel, message) by any client of the Redis server.
RedisPublish(ch) ==
    /\ pubsub' = [pubsub EXCEPT
                     !.last = [channel |-> ch,
                               invoked |-> MessageListeners(pubsub, ch)]]
    /\ UNCHANGED <<presenceVars, chatVars, sessions, consumer, idle, cache>>

\* ------------------------------------------------------------ specification

Init ==
    /\ sock = [s \in Conns |-> "new"]
    /\ token = [s \in Conns |-> "unset"]
    /\ connectedClients = <<>>
    /\ pcOn = [s \in Conns |-> "idle"]
    /\ pcOff = [s \in Conns |-> "idle"]
    /\ redis = [presence |-> [u \in Users |-> NoRecord],
                online   |-> {},
                sockets  |-> [u \in Users |-> {}]]
    /\ pcClean = CleanIdle
    /\ onlineBroadcasts = [u \in Users |-> 0]
    /\ offlineBroadcasts = [u \in Users |-> 0]
    /\ rooms = [c \in Chats |-> {}]
    /\ messages = <<>>
    /\ op = [s \in Conns |-> IdleOp]
    /\ out = {}
    /\ sends = [s \in Conns |-> <<>>]
    /\ sessions = NoSessions
    /\ consumer = ConsumerStarted
    /\ idle = [s \in Conns |-> JustNow]
    /\ pubsub = NoSubscriptions
    /\ cache = NoCache

\* Connection lifecycle and Presence Store.
Next ==
    \/ \E s \in Conns, tok \in Tokens : ClientConnects(s, tok)
    \/ \E s \in Conns : SetOnlineSetKey(s)
    \/ \E s \in Conns : SetOnlineSaddOnline(s)
    \/ \E s \in Conns : SetOnlineSaddSocket(s)
    \/ \E s \in Conns : ConnectionEstablished(s)
    \/ \E s \in Conns : SocketCloses(s)
    \/ \E s \in Conns : SetOfflineSremSocket(s)
    \/ \E s \in Conns : SetOfflineReadSockets(s)
    \/ \E s \in Conns : SetOfflineSetKey(s)
    \/ \E s \in Conns : SetOfflineSremOnline(s)

Spec == Init /\ [][Next]_vars

\* Connection lifecycle with Presence Store commands that may throw while a
\* closed connection is cleaned up.
NextOffline ==
    \/ Next
    \/ \E s \in Conns : SetOfflineFails(s)
    \/ \E s \in Conns : SetOfflineReadSocketsFails(s)

SpecOffline == Init /\ [][NextOffline]_vars

\* The same with the periodic sweep and the passing of time, for the
\* connections of one user.
SweepConns == {"b1", "b2"}

NextSweep ==
    \/ \E s \in SweepConns, tok \in Tokens : ClientConnects(s, tok)
    \/ \E s \in SweepConns : SetOnlineSetKey(s)
    \/ \E s \in SweepConns : SetOnlineSaddOnline(s)
    \/ \E s \in SweepConns : SetOnlineSaddSocket(s)
    \/ \E s \in SweepConns : ConnectionEstablished(s)
    \/ \E s \in SweepConns : SocketCloses(s)
    \/ \E s \in SweepConns : SetOfflineSremSocket(s)
    \/ \E s \in SweepConns : SetOfflineReadSockets(s)
    \/ \E s \in SweepConns : SetOfflineSetKey(s)
    \/ \E s \in SweepConns : SetOfflineSremOnline(s)
    \/ \E k \in 0..Len(connectedClients), syncClose \in SUBSET SweepConns :
          cleanupDeadConnections(k, syncClose)
    \/ CleanupReadOnline
    \/ \E u \in Users : CleanupGetPresence(u)
    \/ CleanupSremOnline
    \/ \E u \in Users : PresenceAges(u)

SpecSweep == Init /\ [][NextSweep]_vars

\* The commands setOnline and setOffline of a connection have sent to Redis:
\* Redis answers each of them.
PresenceCommand(s) ==
    \/ SetOnlineSetKey(s) \/ SetOnlineSaddOnline(s) \/ SetOnlineSaddSocket(s)
    \/ ConnectionEstablished(s)
    \/ SetOfflineSremSocket(s) \/ SetOfflineReadSockets(s)
    \/ SetOfflineSetKey(s) \/ SetOfflineSremOnline(s)

\* setInterval(() => this.cleanupDeadConnections(), 30000) keeps firing.
SweepTimerFires ==
    \E k \in 0..Len(connectedClients), syncClose \in SUBSET SweepConns :
       cleanupDeadConnections(k, syncClose)

\* The commands of a run of cleanupExpiredPresence are answered too.
CleanupCommand ==
    \/ CleanupReadOnline
    \/ \E u \in Users : CleanupGetPresence(u)
    \/ CleanupSremOnline

\* The sweep with its timer that never stops and a Redis that always answers;
\* clients close their sockets when they like, or never.
SpecSweepLive ==
    /\ SpecSweep
    /\ \A s \in SweepConns : WF_vars(PresenceCommand(s))
    /\ WF_vars(SweepTimerFires)
    /\ WF_vars(CleanupCommand)

\* The sweep among connections that receive events while time passes.
ActivityConns == {"a1", "b1"}

NextActivity ==
    \/ \E s \in ActivityConns : ClientConnectsPromptly(s, "valid")
    \/ \E s \in ActivityConns : SocketClosesPromptly(s)
    \/ \E s \in ActivityConns : handleGetOnlineUsers(s)
    \/ MaxInactiveTimePasses
    \/ \E syncClose \in SUBSET ActivityConns : cleanupDeadConnectionsNow(syncClose)
    \/ \E s \in ActivityConns : SetOfflineSremSocket(s)
    \/ \E s \in ActivityConns : SetOfflineReadSockets(s)
    \/ \E s \in ActivityConns : SetOfflineSetKey(s)
    \/ \E s \in ActivityConns : SetOfflineSremOnline(s)
    \/ CleanupReadOnline
    \/ \E u \in Users : CleanupGetPresence(u)
    \/ CleanupSremOnline
    \/ \E u \in Users : PresenceAges(u)

SpecActivity == Init /\ [][NextActivity]_vars

\* Messaging: the handlers of message, chat:join, chat:leave and
\* message:read on connections that come and go.
ChatTokens == {"valid"}

\* The chat ids the clients put in their requests.
ChatPayloads == {"c1", "c2", NoChat}

NextChat ==
    \/ \E s \in Conns, tok \in ChatTokens : ClientConnectsPromptly(s, tok)
    \/ \E s \in Conns : SocketClosesPromptly(s)
    \/ \E s \in Conns, c \in ChatPayloads : MessageRequest(s, c)
    \/ \E s \in Conns : MessageSave(s)
    \/ \E s \in Conns, c \in ChatPayloads : JoinRequest(s, c)
    \/ \E s \in Conns : JoinQuery(s)
    \/ \E s \in Conns, m \in MsgIds : JoinUpdate(s, m)
    \/ \E s \in Conns, c \in ChatPayloads \ {NoChat} : ChatLeave(s, c)
    \/ \E s \in Conns, m \in 1..MaxMsgs : ReadRequest(s, m)
    \/ \E s \in Conns : ReadUpdate(s)

SpecChat == Init /\ [][NextChat]_vars

\* Sending with a database, a Kafka and a cache that may fail, and the status
\* updates of joining and reading, while cached copies expire.
SaveConns == {"a1", "b1"}

SavePayloads == {"c1"}

NextSave ==
    \/ \E s \in SaveConns : ClientConnectsPromptly(s, "valid")
    \/ \E s \in SaveConns, c \in SavePayloads : MessageRequest(s, c)
    \/ \E s \in SaveConns, dbFails, kafkaFails, cacheFails \in BOOLEAN :
          MessageSaveWith(s, dbFails, kafkaFails, cacheFails)
    \/ \E s \in SaveConns, c \in SavePayloads : JoinRequest(s, c)
    \/ \E s \in SaveConns : JoinQuery(s)
    \/ \E s \in SaveConns, m \in MsgIds : JoinUpdate(s, m)
    \/ \E s \in SaveConns, m \in 1..MaxMsgs : ReadRequest(s, m)
    \/ \E s \in SaveConns : ReadUpdate(s)
    \/ \E m \in 1..MaxMsgs : MessageKeyExpires(m)

SpecSave == Init /\ [][NextSave]_vars

\* Calls of the message cache with any messages of a chat.
CacheIds == {1, 2}

CacheChats == {"c1"}

CacheStatuses == {"SENT", "READ"}

\* How many messages warmUpCache is given.
WarmUpSizes == {1, 2, 51}

NextCache ==
    \/ \E m \in CacheIds, c \in CacheChats, st \in CacheStatuses :
          CacheMessageCalled(m, c, st)
    \/ \E m \in CacheIds, c \in CacheChats, st \in CacheStatuses :
          CachePinnedMessageCalled(m, c, st)
    \/ \E n \in WarmUpSizes, ids \in SUBSET CacheIds, c \in CacheChats,
          st \in CacheStatuses : WarmUpCacheCalled(n, ids, c, st)
    \/ \E m \in CacheIds : MessageKeyExpires(m)
    \/ \E c \in CacheChats : RecentListExpires(c)

SpecCache == Init /\ [][NextCache]_vars

\* Rooms: two chats of A, one with B and one without, in which the
\* connections send, join and leave.
RoomPayloads == {"c1", "c3"}

NextRooms ==
    \/ \E s \in Conns, tok \in ChatTokens : ClientConnectsPromptly(s, tok)
    \/ \E s \in Conns : SocketClosesPromptly(s)
    \/ \E s \in Conns, c \in RoomPayloads : MessageRequest(s, c)
    \/ \E s \in Conns : MessageSave(s)
    \/ \E s \in Conns, c \in RoomPayloads : JoinRequest(s, c)
    \/ \E s \in Conns : JoinQuery(s)
    \/ \E s \in Conns, m \in MsgIds : JoinUpdate(s, m)
    \/ \E s \in Conns, c \in RoomPayloads : ChatLeave(s, c)

SpecRooms == Init /\ [][NextRooms]_vars

\* Two processes: a1 and b1 are held by p1, b2 by p2.
ClusterPayloads == {"c1"}

NextCluster ==
    \/ \E s \in Conns, tok \in ChatTokens : ClientConnectsPromptly(s, tok)
    \/ \E s \in Conns : ClusterSocketCloses(s)
    \/ \E s \in Conns, c \in ClusterPayloads : ClusterMessageRequest(s, c)
    \/ \E s \in Conns : MessageSave(s)
    \/ \E s \in Conns, c \in ClusterPayloads : JoinRequest(s, c)
    \/ \E s \in Conns : JoinQuery(s)
    \/ \E s \in Conns, m \in MsgIds : ClusterJoinUpdate(s, m)
    \/ \E s \in Conns, m \in 1..MaxMsgs : ReadRequest(s, m)
    \/ \E s \in Conns : ReadUpdate(s)

SpecCluster == Init /\ [][NextCluster]_vars

\* Several message events on one connection: a1 sends, B's connections join.
OrderConns == {"a1"}

OrderPayloads == {"c1"}

NextOrder ==
    \/ \E s \in Conns, tok \in ChatTokens : ClientConnectsPromptly(s, tok)
    \/ \E s \in Conns : SocketClosesPromptly(s)
    \/ \E s \in OrderConns, c \in OrderPayloads : SendReceived(s, c)
    \/ \E s \in OrderConns, i \in 1..MaxSends : SendSaved(s, i)
    \/ \E s \in Conns, c \in OrderPayloads : JoinRequest(s, c)
    \/ \E s \in Conns : JoinQuery(s)
    \/ \E s \in Conns, m \in MsgIds : JoinUpdate(s, m)

SpecOrder == Init /\ [][NextOrder]_vars

\* Messaging in chat c1 with emits of message:status that may throw.
EmitFailPayloads == {"c1"}

NextEmitFail ==
    \/ \E s \in Conns, tok \in ChatTokens : ClientConnectsPromptly(s, tok)
    \/ \E s \in Conns : SocketClosesPromptly(s)
    \/ \E s \in Conns, c \in EmitFailPayloads : MessageRequest(s, c)
    \/ \E s \in Conns : MessageSave(s)
    \/ \E s \in Conns, c \in EmitFailPayloads : JoinRequest(s, c)
    \/ \E s \in Conns : JoinQuery(s)
    \/ \E s \in Conns, m \in MsgIds : JoinUpdate(s, m)
    \/ \E s \in Conns, m \in MsgIds : JoinUpdateEmitFails(s, m)
    \/ \E s \in Conns, m \in 1..MaxMsgs : ReadRequest(s, m)
    \/ \E s \in Conns : ReadUpdate(s)
    \/ \E s \in Conns : ReadUpdateEmitFails(s)

SpecEmitFail == Init /\ [][NextEmitFail]_vars

\* Messaging in chat c1 next to reads of the Presence Store that may throw.
ReadsUsers == {"A", "B"}

NextReads ==
    \/ \E s \in Conns, tok \in ChatTokens : ClientConnectsPromptly(s, tok)
    \/ \E s \in Conns : SocketClosesPromptly(s)
    \/ \E s \in Conns, c \in EmitFailPayloads : MessageRequest(s, c)
    \/ \E s \in Conns : MessageSave(s)
    \/ \E s \in Conns, c \in EmitFailPayloads : JoinRequest(s, c)
    \/ \E s \in Conns : JoinQuery(s)
    \/ \E s \in Conns, m \in MsgIds : JoinUpdate(s, m)
    \/ \E s \in Conns, m \in 1..MaxMsgs : ReadRequest(s, m)
    \/ \E s \in Conns : ReadUpdate(s)
    \/ \E u \in ReadsUsers, throws \in BOOLEAN : IsUserOnlineCalled(u, throws)
    \/ \E u \in ReadsUsers, throws \in BOOLEAN : GetUserSocketsCalled(u, throws)

SpecReads == Init /\ [][NextReads]_vars

\* setOnline and setOffline as functions of the store: the store starts with
\* any content the keys of A and B can have (interleaved setOnline and
\* setOffline and expiring keys produce all of them) and the calls are applied.
PresenceRecords ==
    {NoRecord} \cup [status : {"online", "offline"}, stale : BOOLEAN]

StoreContents ==
    {r \in [presence : [Users -> PresenceRecords],
            online   : SUBSET {"A", "B"},
            sockets  : [Users -> SUBSET Conns]] :
        /\ \A u \in Users : r.sockets[u] \subseteq {s \in Conns : UserOf(s) = u}
        /\ \A u \in Users \ {"A", "B"} : r.presence[u] = NoRecord}

InitIdem ==
    /\ sock = [s \in Conns |-> "new"]
    /\ token = [s \in Conns |-> "unset"]
    /\ connectedClients = <<>>
    /\ pcOn = [s \in Conns |-> "idle"]
    /\ pcOff = [s \in Conns |-> "idle"]
    /\ redis \in StoreContents
    /\ pcClean = CleanIdle
    /\ onlineBroadcasts = [u \in Users |-> 0]
    /\ offlineBroadcasts = [u \in Users |-> 0]
    /\ rooms = [c \in Chats |-> {}]
    /\ messages = <<>>
    /\ op = [s \in Conns |-> IdleOp]
    /\ out = {}
    /\ sends = [s \in Conns |-> <<>>]
    /\ sessions = NoSessions
    /\ consumer = ConsumerStarted
    /\ idle = [s \in Conns |-> JustNow]
    /\ pubsub = NoSubscriptions
    /\ cache = NoCache

NextIdem ==
    \/ \E s \in Conns : SetOnlineCalled(s)
    \/ \E s \in Conns : SetOfflineCalled(s)

SpecIdem == InitIdem /\ [][NextIdem]_vars

\* SessionService called by any caller, one call at a time, while time passes.
NextSession ==
    \/ \E u \in SessionUsers, tok \in SessionTokens : CreateSessionCalled(u, tok)
    \/ \E id \in SessionIds : GetSessionCalled(id)
    \/ \E id \in SessionIds : ValidateSessionCalled(id)
    \/ \E u \in SessionUsers : GetUserSessionsCalled(u)
    \/ \E id \in SessionIds : DeleteSessionCalled(id)
    \/ \E u \in SessionUsers : DeleteAllUserSessionsCalled(u)
    \/ \E id \in SessionIds : SessionExpiresAtPasses(id)
    \/ \E id \in SessionIds : SessionKeyExpires(id)

SpecSession == Init /\ [][NextSession]_vars

\* The Kafka consumer after onModuleInit: handlers come and go, events arrive,
\* and any handlers may throw on an event.
NextConsumer ==
    \/ \E topic \in Topics, h \in ExtraHandlers : RegisterHandler(topic, h)
    \/ \E topic \in Topics, h \in ExtraHandlers : UnregisterHandler(topic, h)
    \/ \E topic \in Topics, throwers \in SUBSET Handlers :
          EventReceived(topic, throwers)

SpecConsumer == Init /\ [][NextConsumer]_vars

\* Subscriptions and publications on the channels of one Redis server.
NextPubSub ==
    \/ \E ch \in Channels, h \in RedisHandlers : RedisSubscribe(ch, h)
    \/ \E ch \in Channels : RedisUnsubscribe(ch)
    \/ \E ch \in Channels : RedisPublish(ch)

SpecPubSub == Init /\ [][NextPubSub]_vars

\* Sending, pinning, unpinning and forwarding by connections of A and B in
\* the chats c1 (A and B) and c3 (A and X).
PinConns == {"a1", "b1"}

PinPayloads == {"c1", "c3", NoChat}

\* How many times a run pins a message.
MaxPins == 2

\* The entries of the lists chat:recent:<chatId>: one for every message saved
\* and one for every pin.
RECURSIVE RecentEntries(_)
RecentEntries(cs) ==
    IF cs = {} THEN 0
    ELSE LET c == CHOOSE x \in cs : TRUE
         IN  cache.recent[c] + RecentEntries(cs \ {c})

NextPins ==
    \/ \E s \in PinConns, tok \in ChatTokens : ClientConnectsPromptly(s, tok)
    \/ \E s \in PinConns, c \in RoomPayloads : MessageRequest(s, c)
    \/ \E s \in PinConns : MessageSave(s)
    \/ \E s \in PinConns, kind \in {"pin", "unpin"}, m \in 1..MaxMsgs + MaxForwards :
          /\ kind = "pin" => RecentEntries(Chats) < MaxMsgs + MaxPins
          /\ PinRequest(s, kind, m)
    \/ \E s \in PinConns : PinSave(s)
    \/ \E s \in PinConns, m \in 1..MaxMsgs + MaxForwards, c \in PinPayloads :
          ForwardRequest(s, m, c)
    \/ \E s \in PinConns : ForwardSave(s)

SpecPins == Init /\ [][NextPins]_vars

\* ------------------------------------------------------------------- claims

\* No setOnline and no setOffline call is between two of its Redis commands.
PresenceQuiescent ==
    \A s \in Conns : /\ pcOn[s] \in {"idle", "publish", "done"}
                     /\ pcOff[s] \in {"idle", "done"}

\* C1: for every user, in every reachable state, isUserOnline(U) (membership
\* in users:online) is true if and only if getUserSockets(U) is non-empty.
C1_PresenceConsistency ==
    \A u \in Users : isUserOnline(u) <=> (getUserSockets(u) # {})

\* The same between calls only: it fails as well, the online flag of a user
\* whose connect and disconnect overlapped stays wrong after both finished.
C1_ConsistencyWhenQuiescent == PresenceQuiescent => C1_PresenceConsistency

C8_RejectedNeverActive ==
    /\ \A s \in Conns :
          token[s] \in Tokens \ {"valid"} =>
             /\ sock[s] = "rejected"
             /\ s \notin Registered(connectedClients)
             /\ pcOn[s] = "idle"
             /\ s \notin getUserSockets(UserOf(s))
    /\ \A u \in Users :
          onlineBroadcasts[u] <=
             Cardinality({s \in Conns : UserOf(s) = u /\ token[s] = "valid"})

\* C8 witness: one device of B was refused for failing user validation while
\* another one is connected.
C8_Witness ==
    /\ token["b1"] = "badUser" /\ sock["b1"] = "rejected"
    /\ token["b2"] = "valid" /\ pcOn["b2"] = "done"

\* ------------------------------------------------------ claims on messaging

Rank(st) == CASE st = "SENT" -> 1 [] st = "DELIVERED" -> 2 [] st = "READ" -> 3
              [] OTHER -> 0

JoinHandlers(pc) == {s \in Conns : op[s].kind = "join" /\ op[s].pc = pc}

\* The message:status events of a step for message m with status st.
StatusEvents(o, m, st) ==
    {e \in o : e.type = "message:status" /\ e.msg = m /\ e.status = st}

\* The replies of a step to request req with the given outcome.
Replies(o, req, outcome) ==
    {e \in o : e.type = "reply" /\ e.req = req /\ e.status = outcome}

\* C3: the status of a message never moves backward (SENT < DELIVERED < READ),
\* whatever the interleaving of sends, chat:join sweeps and message:read
\* acknowledgements.
C3_StatusNeverMovesBackward ==
    [][\A m \in MsgIds :
         Rank(messages'[m].status) >= Rank(messages[m].status)]_vars

\* C4: a message:read for a message that is already READ is rejected as a
\* conflict: no handler goes on to write the status and to emit message:status
\* for a message whose status was READ when the request came in.
C4_ReadOfReadMessageRejected ==
    \A s \in Conns : op[s].kind = "read" => op[s].status # "READ"

\* C5: a message stored as SENT because its recipient had not joined is picked
\* up by the recipient's next chat:join: the join's query returns every SENT
\* message of the chat from the other participant, and each turn of its loop
\* sets one of them to DELIVERED and sends message:status DELIVERED to every
\* registered connection of the sender.
C5_JoinDeliversPendingMessages ==
    [][/\ \A s \in JoinHandlers("query") :
            op'[s] # op[s] =>
                \A m \in MsgIds :
                    ( /\ messages[m].chatId = op[s].chat
                      /\ messages[m].senderId # UserOf(s)
                      /\ messages[m].status = "SENT" ) => m \in op'[s].list
       /\ \A s \in JoinHandlers("update") :
            op'[s] # op[s] =>
                /\ Cardinality(op[s].list \ op'[s].list) = 1
                /\ \A m \in op[s].list \ op'[s].list :
                    /\ messages'[m].status = "DELIVERED"
                    /\ \A x \in SocketsOfUser(connectedClients, messages[m].senderId) :
                         \E e \in StatusEvents(out', m, "DELIVERED") : x \in e.to
      ]_vars

\* C5, the case: A's message was stored as SENT, B's join set it to DELIVERED
\* and A's connection has just been sent message:status DELIVERED.
C5_Witness ==
    /\ Len(messages) = 1
    /\ messages[1].senderId = "A" /\ messages[1].chatId = "c1"
    /\ messages[1].initial = "SENT" /\ messages[1].status = "DELIVERED"
    /\ \E e \in StatusEvents(out, 1, "DELIVERED") : "a1" \in e.to

\* C6: handleMessage of a participant picks DELIVERED exactly when a registered
\* connection of the recipient is in the chat's room at that moment, and SENT
\* otherwise; the row is stored with that status; and a message stored as
\* DELIVERED is never updated by a chat:join.
C6_InitialStatusFromRoom ==
    [][/\ \A s \in Conns :
            ( /\ op[s].kind = "idle" /\ op'[s].kind = "message"
              /\ UserOf(s) \in Participants(op'[s].chat) ) =>
                \A r \in Participants(op'[s].chat) \ {UserOf(s)} :
                    (op'[s].status = "DELIVERED")
                        <=> (\E x \in Conns : /\ x \in Registered(connectedClients)
                                              /\ UserOf(x) = r
                                              /\ x \in rooms[op'[s].chat])
       /\ \A s \in Conns :
            ( /\ op[s].kind = "idle" /\ op'[s].kind = "message" ) =>
                op'[s].status \in {"SENT", "DELIVERED"}
       /\ \A s \in Conns :
            (op[s].kind = "message" /\ op'[s] # op[s]) =>
                /\ Len(messages') = Len(messages) + 1
                /\ messages'[Len(messages')].status = op[s].status
       /\ \A m \in 1..Len(messages') :
            messages'[m].joins > 0 => messages'[m].initial = "SENT"
      ]_vars

\* C6, the case: B has two registered connections, b2 is in the room and b1 is
\* not; A's message is stored DELIVERED, and a later join of b1 ends without
\* having updated it.
C6_Witness ==
    /\ Len(messages) = 1
    /\ messages[1].senderId = "A" /\ messages[1].chatId = "c1"
    /\ messages[1].initial = "DELIVERED" /\ messages[1].joins = 0
    /\ out = {Reply("b1", "chat:join", "c1", 0, "ok")}
    /\ {"b1", "b2"} \subseteq Registered(connectedClients)

\* C7: a chat:join whose query runs after an earlier join has delivered a
\* message does not pick that message up again: its list holds no message a
\* join has updated, and only the messages of a join's list are updated or
\* announced by it.
C7_SecondJoinFindsNothing ==
    [][/\ \A s \in JoinHandlers("query") :
            \A m \in op'[s].list :
                messages[m].joins = 0 /\ messages[m].status = "SENT"
       /\ \A m \in MsgIds :
            messages'[m].joins # messages[m].joins =>
                \E s \in JoinHandlers("update") : m \in op[s].list
       /\ \A m \in MsgIds :
            (StatusEvents(out', m, "DELIVERED") # {}) =>
                \E s \in JoinHandlers("update") : m \in op[s].list
      ]_vars

\* C7, the case: the first join has delivered A's message, and a second join
\* of b1 has just ended with its reply alone: no update, no message:status,
\* although A's connection is registered.
C7_Witness ==
    /\ Len(messages) = 1
    /\ messages[1].senderId = "A" /\ messages[1].joins = 1
    /\ messages[1].status = "DELIVERED"
    /\ "a1" \in Registered(connectedClients)
    /\ out = {Reply("b1", "chat:join", "c1", 0, "ok")}

\* C9: a message sent by a user who is not a participant of the chat is not
\* stored: every stored message was sent by a participant of its chat.
C9_OnlyParticipantsSend ==
    \A m \in MsgIds : messages[m].senderId \in Participants(messages[m].chatId)

\* C10: a chat:join of a user who is not a participant of the chat is answered
\* with an error and changes nothing: no connection of a non-participant is in
\* a chat's room or runs the join's loop or is told ok, and the step that
\* answers a join with an error leaves the rooms and the messages as they were.
C10_NonParticipantJoinRejected ==
    [][/\ \A c \in Chats : \A s \in rooms'[c] : UserOf(s) \in Participants(c)
       /\ \A s \in Conns :
            op'[s].kind = "join" => UserOf(s) \in Participants(op'[s].chat)
       /\ \A e \in Replies(out', "chat:join", "ok") :
            \A s \in e.to : e.chat \in Chats /\ UserOf(s) \in Participants(e.chat)
       /\ (Replies(out', "chat:join", "error") # {}) =>
            rooms' = rooms /\ messages' = messages /\ op' = op
      ]_vars

\* C10, the case: B, joined to its own chat where a message waits, has asked
\* to join the chat of X and Y and has been answered with an error.
C10_Witness ==
    /\ out = {Reply("b1", "chat:join", "c2", 0, "error")}
    /\ Len(messages) = 1 /\ messages[1].status = "SENT"
    /\ "b1" \notin rooms["c2"]

\* C11: a message:read from a user who is not a participant of the message's
\* chat is answered with an error to that connection alone and changes
\* nothing: no handler of a non-participant goes on to the status write, a
\* status becomes READ and message:status READ is emitted only in a step of a
\* participant's handler, and the step that answers a message:read with an
\* error emits that one reply and leaves the messages and handlers alone.
C11_NonParticipantReadRejected ==
    [][/\ \A s \in Conns :
            op'[s].kind = "read" =>
                UserOf(s) \in Participants(messages'[op'[s].msg].chatId)
       /\ \A m \in MsgIds :
            ( \/ (messages'[m].status = "READ" /\ messages[m].status # "READ")
              \/ StatusEvents(out', m, "READ") # {} ) =>
                \E s \in Conns : /\ op[s].kind = "read" /\ op[s].msg = m
                                 /\ UserOf(s) \in Participants(messages[m].chatId)
       /\ \A e \in Replies(out', "message:read", "error") :
            /\ out' = {e}
            /\ Cardinality(e.to) = 1
            /\ messages' = messages /\ op' = op
      ]_vars

\* C11, the case: a message waits in the chat of X and Y, and B, who is not
\* one of them, has just been answered with an error to its message:read.
C11_Witness ==
    /\ Len(messages) = 1 /\ messages[1].chatId = "c2"
    /\ messages[1].status = "SENT"
    /\ out = {Reply("b1", "message:read", "-", 1, "error")}

\* C12: a 'message' event published for a chat reaches only the connections
\* that are in the room of that chat when it is emitted: a connection that is
\* in no room, or only in the room of another chat, is not among its
\* receivers, whatever joins and leaves came before.
C12_MessageOnlyToRoomMembers ==
    [][\A e \in out' :
         e.type = "message" =>
             \A x \in Conns :
                 x \in e.to => (x \in rooms[e.chat] /\ x \in rooms'[e.chat])]_vars

\* C12, the case: a1 is in the room of c3 alone, b1 is in the room of c1, and
\* B's message for c1 has just been emitted to b1 and not to a1.
C12_Witness ==
    /\ "a1" \in rooms["c3"] /\ "a1" \notin rooms["c1"]
    /\ \E e \in out : /\ e.type = "message" /\ e.chat = "c1"
                      /\ e.to = {"b1"}

C14_OfflineBroadcastOnlyWhenStoreEmpty ==
    [][\A u \in Users :
         offlineBroadcasts'[u] # offlineBroadcasts[u] => redis'.sockets[u] = {}]_vars

\* C15: when a join or a read acknowledgement changes the status of a message,
\* message:status with the new status goes to every registered connection of
\* the message's sender, on whichever process that connection is held.
C15_StatusReachesEverySenderConnection ==
    [][\A m \in MsgIds :
         messages'[m].status # messages[m].status =>
             \A x \in SocketsOfUser(connectedClients, messages[m].senderId) :
                 \E e \in StatusEvents(out', m, messages'[m].status) : x \in e.to]_vars

\* C16: the message events of one connection are stored and emitted to the
\* room in the order in which they arrived: when a later one has been stored,
\* every earlier one has been stored before it.
C16_SendsStoredInReceiptOrder ==
    \A s \in Conns : \A i, j \in 1..Len(sends[s]) :
        (i < j /\ sends[s][j].row # 0) =>
            (sends[s][i].row # 0 /\ sends[s][i].row < sends[s][j].row)

\* C17: when the emit of message:status throws after updateMessageStatus has
\* stored the new status, the stored status stays: the step in which a read or
\* join handler at its update ends with an error leaves READ, respectively
\* DELIVERED, in the row it wrote, and a status changes only in a handler's
\* update step, to the status that handler writes.
C17_EmitFailureKeepsStatus ==
    [][/\ \A s \in Conns :
            ( /\ op[s].kind = "read" /\ op[s].pc = "update"
              /\ Replies(out', "message:read", "error") # {}
              /\ op'[s] = IdleOp ) =>
                messages'[op[s].msg].status = "READ"
       /\ \A s \in Conns :
            ( /\ op[s].kind = "join" /\ op[s].pc = "update"
              /\ Replies(out', "chat:join", "error") # {}
              /\ op'[s] = IdleOp ) =>
                \E m \in op[s].list : /\ messages'[m].status = "DELIVERED"
                                       /\ messages'[m].joins = messages[m].joins + 1
       /\ \A m \in MsgIds :
            messages'[m].status # messages[m].status =>
                \E s \in Conns :
                    /\ op[s].pc = "update" /\ op'[s] # op[s]
                    /\ messages'[m].status =
                           (IF op[s].kind = "read" THEN "READ" ELSE "DELIVERED")
      ]_vars

\* C17, the case: B's join wrote DELIVERED to A's message, the emit to a1
\* threw, the join was answered with an error, and the row is DELIVERED.
C17_Witness ==
    /\ out = {Reply("b1", "chat:join", "c1", 0, "error")}
    /\ Len(messages) = 1 /\ messages[1].senderId = "A"
    /\ messages[1].initial = "SENT" /\ messages[1].joins = 1
    /\ messages[1].status = "DELIVERED"

\* C18: when setOffline fails with an infrastructure error during the cleanup
\* of a closed connection, the cleanup is retried: wherever the setOffline of
\* a connection has failed, a step that runs that cleanup again is possible.
C18_FailedSetOfflineIsRetried ==
    \A s \in Conns :
        pcOff[s] = "failed" => ENABLED (NextOffline /\ pcOff'[s] # "failed")

\* C19: when the Redis read behind it throws, isUserOnline returns false and
\* getUserSockets returns the empty set, and that step changes no message; and
\* no message's status changes in a step that is not a handler's own write
\* (a save or an update), so no DELIVERED or READ comes from a failed read.
C19_FailedReadsAnswerOfflineAndEmpty ==
    [][/\ \A e \in out' :
            (e.type = "return" /\ e.msg = 1) =>
                /\ e.req = "isUserOnline" => e.status = "false"
                /\ e.req = "getUserSockets" => e.to = {}
                /\ messages' = messages
       /\ messages' # messages =>
            \E s \in Conns : op[s].pc \in {"save", "update"} /\ op'[s] # op[s]
      ]_vars

\* C19, the case: B is in users:online with a socket in the store, Redis throws
\* under isUserOnline('B'), the call returns false, and A's message is SENT.
C19_Witness ==
    /\ out = {Return("isUserOnline", "B", TRUE, "false", {})}
    /\ "B" \in redis.online /\ redis.sockets["B"] # {}
    /\ Len(messages) = 1 /\ messages[1].senderId = "A"
    /\ messages[1].status = "SENT"

\* What C20 compares: every user's connection set, the online set, and the
\* status of every presence record.
PresenceView(r) ==
    [sockets |-> r.sockets, online |-> r.online,
     status |-> [u \in Users |-> r.presence[u].status]]

\* C20: setOnline(u, c) and setOffline(u, c) are idempotent: a call made a
\* second time in a row with the same arguments leaves the connection sets,
\* the online set and the status of the presence records as the first call
\* left them.
C20_SetOnlineSetOfflineIdempotent ==
    [][\A e \in out' :
          (out' # out /\ e.type = "call" /\ e.msg >= 2) =>
              PresenceView(redis') = PresenceView(redis)]_vars

\* C20, the case: setOffline('B', 'b1') has been called twice in a row on a
\* store that held b1 as B's only socket; B is offline and out of the set.
C20_Witness ==
    /\ out = {Call("setOffline", "B", "b1", 2)}
    /\ redis.sockets["B"] = {} /\ "B" \notin redis.online
    /\ redis.presence["B"].status = "offline"
    /\ redis.sockets["A"] = {"a1"} /\ redis.presence["A"].status = "online"

\* C21: every entry of connectedClients belongs to a socket that is still
\* connected: no entry is present for a socket whose disconnect event has been
\* handled, nor for one that never connected.
C21_RegistryEntriesAreConnected ==
    \A s \in Registered(connectedClients) : sock[s] = "open"

\* C21, the case: b1 was registered, its disconnect event has been handled and
\* its entry is gone, while b2 is connected and registered.
C21_Witness ==
    /\ sock["b1"] = "closed" /\ pcOff["b1"] # "idle"
    /\ sock["b2"] = "open"
    /\ Registered(connectedClients) = {"b2"}

C23_LogoutEverywhereInvalidatesSessions ==
    [][\A u \in SessionUsers :
          out' = {SessionCall("deleteAllUserSessions", u, "-", {})} =>
              /\ \A id \in SessionIds :
                    sessions.created[id] = u => ~validateSession(sessions', id)
              /\ getUserSessions(sessions', u) = {}]_vars

\* C24: for each event received on a topic, every handler registered for the
\* topic is invoked exactly once (once per registration) and no handler of
\* another topic is invoked, and processEvent does not reject whichever
\* handlers throw, so the events after it are processed in the same way.
C24_EveryHandlerOncePerEvent ==
    LET e == consumer.last
    IN  /\ \A h \in Handlers : e.calls[h] = Occurrences(e.handlers, h)
        /\ ~e.rejected

\* C24, the case: h1 and h2 are registered next to the built-in handler, a
\* handler threw on the first event, and the second event of the topic, on
\* which h1 throws, reached all three handlers once.
C24_Witness ==
    /\ consumer.received = 2 /\ consumer.errorsLogged = 1
    /\ consumer.last.topic = "USER_ONLINE"
    /\ consumer.last.handlers = <<BuiltinHandler, "h1", "h2">>
    /\ consumer.last.throwers = {"h1"}
    /\ consumer.last.calls = [h \in Handlers |-> 1]

\* The pin state of a row.
PinState(row) == <<row.isPinned, row.pinnedBy>>

\* C25: pinMessage by a participant on an unpinned message marks it pinned with
\* pinnedBy the caller; a pin of a pinned message, an unpin of a message that
\* is not pinned and either one by a non-participant is rejected with a
\* conflict and leaves the pin state unchanged; the pin state changes in no
\* other way.
C25_PinAndUnpinChecked ==
    [][/\ \A s \in Conns :
            /\ (op[s].kind = "pin" /\ op'[s] = IdleOp) =>
                  PinState(messages'[op[s].msg]) = <<TRUE, UserOf(s)>>
            /\ (op[s].kind = "unpin" /\ op'[s] = IdleOp) =>
                  PinState(messages'[op[s].msg]) = <<FALSE, "-">>
            /\ (op[s] = IdleOp /\ op'[s].kind \in {"pin", "unpin"}) =>
                  /\ UserOf(s) \in Participants(messages[op'[s].msg].chatId)
                  /\ messages[op'[s].msg].isPinned = (op'[s].kind = "unpin")
       /\ \A e \in out' :
            (e.type = "reply" /\ e.req \in {"message:pin", "message:unpin"}
                /\ e.status # "ok") =>
                  /\ messages' = messages /\ op' = op
                  /\ e.msg \in MsgIds => e.status = "Conflict"
       /\ \A m \in MsgIds :
            PinState(messages'[m]) # PinState(messages[m]) =>
                \E s \in Conns : /\ op[s].kind \in {"pin", "unpin"}
                                 /\ op[s].msg = m /\ op'[s] = IdleOp
      ]_vars

\* C25, the case: A pinned the message of chat c1, and B's pin of it is
\* answered with a conflict while the message stays pinned by A.
C25_Witness ==
    /\ out = {Reply("b1", "message:pin", "-", 1, "Conflict")}
    /\ messages[1].chatId = "c1"
    /\ PinState(messages[1]) = <<TRUE, "A">>

\* C26: forwardMessage succeeds only for a participant of both the original
\* message's chat and the target chat; it appends exactly one message, in the
\* target chat, with isForwarded, forwardedFromId the original's id,
\* originalSenderId the original's sender and status SENT, and changes no
\* other message; a rejected forward creates nothing, and forwarded messages
\* are created in no other way.
C26_ForwardChecked ==
    [][/\ \A s \in Conns :
            /\ (op[s].kind = "forward" /\ op'[s] = IdleOp) =>
                  /\ Len(messages') = Len(messages) + 1
                  /\ \A i \in MsgIds : messages'[i] = messages[i]
                  /\ LET new == messages'[Len(messages')]
                     IN  /\ new.chatId = op[s].chat
                         /\ new.senderId = UserOf(s)
                         /\ new.isForwarded
                         /\ new.forwardedFromId = op[s].msg
                         /\ new.originalSenderId = messages[op[s].msg].senderId
                         /\ new.status = "SENT"
            /\ (op[s] = IdleOp /\ op'[s].kind = "forward") =>
                  /\ UserOf(s) \in Participants(messages[op'[s].msg].chatId)
                  /\ op'[s].chat \in Chats
                  /\ UserOf(s) \in Participants(op'[s].chat)
       /\ \A e \in out' :
            (e.type = "reply" /\ e.req = "message:forward" /\ e.status # "ok") =>
                  messages' = messages /\ op' = op
       /\ (Len(messages') > Len(messages) /\ messages'[Len(messages')].isForwarded) =>
            \E s \in Conns : op[s].kind = "forward" /\ op'[s] = IdleOp
      ]_vars

\* C26, the case: A, participant of c1 and c3, forwarded B's message of c1 to
\* c3, and B's forward of it to c3 is answered with a conflict.
C26_Witness ==
    /\ out = {Reply("b1", "message:forward", "c3", 1, "Conflict")}
    /\ Len(messages) = 2
    /\ messages[1].chatId = "c1" /\ messages[1].senderId = "B"
    /\ ~messages[1].isForwarded
    /\ messages[2].chatId = "c3" /\ messages[2].senderId = "A"
    /\ messages[2].isForwarded /\ messages[2].forwardedFromId = 1
    /\ messages[2].originalSenderId = "B" /\ messages[2].status = "SENT"

\* C27: when two connections of the recipient run chat:join for the same chat
\* concurrently, the sender of a message is notified of its DELIVERED
\* transition at most once; in particular a turn of a join loop that writes
\* DELIVERED to a message does not notify the sender when the step before it
\* has just done so for the same message.
C27_SenderNotifiedOfDeliveryOnce ==
    [][\A m \in MsgIds :
          ( /\ messages'[m].joins # messages[m].joins
            /\ StatusEvents(out', m, "DELIVERED") # {} ) =>
              StatusEvents(out, m, "DELIVERED") = {}]_vars

\* C28: when a connection closes while the setOnline that handleConnection
\* started for it is in flight, then once the connect processing and the
\* disconnect processing of the connection have both finished, the connection
\* is not in the user's socket set and, if no other connection of the user
\* ever connected, the user is not in the online set.
C28_NoPresenceLeakAfterEarlyClose ==
    \A s \in Conns :
        (pcOn[s] = "done" /\ pcOff[s] = "done") =>
            /\ s \notin redis.sockets[UserOf(s)]
            /\ (\A x \in Conns \ {s} :
                    UserOf(x) = UserOf(s) => sock[x] \in {"new", "rejected"})
                  => UserOf(s) \notin redis.online

\* C29: a run of the sweep takes out of the registry, and so force-closes, a
\* still-connected socket only if no event was received on it during the last
\* maxInactiveTime (5 minutes).
C29_SweepClosesOnlyIdleSockets ==
    [][\A s \in Conns :
          (/\ pcClean.pc = "idle" /\ pcClean'.pc = "smembers"
           /\ s \in Registered(connectedClients)
           /\ s \notin Registered(connectedClients')
           /\ sock[s] = "open")
          => idle[s].event]_vars

\* The user is in users:online and the presence record has not been written
\* within PRESENCE_TTL: it is older than that, or its key has expired.
NotRefreshed(u) ==
    /\ u \in redis.online
    /\ redis.presence[u].status = "none" \/ redis.presence[u].stale

\* C30: a user who is in the online set while their presence record was not
\* refreshed within the liveness TTL is eventually taken out of the online set
\* (or has the record refreshed), whether or not setOffline is called.
C30_UnrefreshedUserLeavesOnlineSet ==
    \A u \in Users : NotRefreshed(u) ~> ~NotRefreshed(u)

\* A connection is Active from the end of handleConnection until its socket
\* closes or its entry leaves the registry.
ActiveConnection(s) ==
    /\ s \in Registered(connectedClients)
    /\ sock[s] = "open"
    /\ pcOn[s] = "done"

HasActiveConnection(u) == \E s \in Conns : UserOf(s) = u /\ ActiveConnection(s)

\* C31: while a user has an Active connection, a presence record that says
\* online keeps saying online: no step in which the user has an Active
\* connection before and after takes the online record away.
C31_ActiveUserKeepsOnlineRecord ==
    [][\A u \in Users :
          (/\ HasActiveConnection(u)
           /\ HasActiveConnection(u)'
           /\ getUserPresence(u).status = "online")
          => getUserPresence(u)'.status = "online"]_vars

\* C32: when handleMessage fixes the initial status of a message, a recipient
\* who has a connection joined to the chat's room, in whichever server process
\* holds that connection, gives the message the status DELIVERED.
C32_JoinedRecipientAnywhereIsDelivered ==
    [][\A s \in Conns :
          (op[s].kind = "idle" /\ op'[s].kind = "message" /\ op'[s].pc = "save")
          => \A r \in Recipients(op'[s].chat, UserOf(s)) :
                isRecipientInChat(connectedClients, rooms, op'[s].chat, r)
                => op'[s].status = "DELIVERED"]_vars

\* C33: a chat:leave handled on connection s for chat c takes no connection
\* other than s out of the chat's room.
C33_LeaveRemovesOnlyTheLeavingConnection ==
    [][\A s \in Conns, c \in Chats :
          Reply(s, "chat:leave", c, 0, "ok") \in out'
          => \A x \in rooms[c] \ {s} : x \in rooms'[c]]_vars

\* C34: the handlers invoked for a published message are handlers that were
\* registered for the channel the message was published on.
C34_HandlerInvokedOnlyForItsChannel ==
    \A i \in 1..Len(pubsub.last.invoked) :
       pubsub.last.invoked[i].for = pubsub.last.channel

\* C37: a getSession(id) that returns for a session whose key is stored and
\* whose expiresAt has passed returns null and leaves neither the session key
\* nor the id in the session index of the session's user.
C37_ExpiredSessionRemovedByGetSession ==
    [][\A id \in SessionIds :
          ( /\ sessions.keys[id] # NoSession
            /\ sessions.keys[id].expired
            /\ out' = {SessionCall("getSession", id, "-", {})} ) =>
              /\ sessions'.keys[id] = NoSession
              /\ id \notin sessions'.index[sessions.keys[id].userId]]_vars

\* The 'message' broadcasts and message:ack events among a set of events.
SendEvents(events) == {e \in events : e.type \in {"message", "message:ack"}}

\* C35: when handleMessage ends, either the message is persisted and the room
\* broadcast and the ack to the sender carry the id of the persisted row, or
\* nothing was persisted and neither a broadcast nor an ack is emitted.
C35_BroadcastAndAckOnlyAfterPersisting ==
    [][\A s \in Conns :
          (op[s].kind = "message" /\ op[s].pc = "save" /\ op'[s] = IdleOp)
          => IF Len(messages') = Len(messages)
             THEN SendEvents(out') = {}
             ELSE /\ \A e \in SendEvents(out') :
                        /\ e.msg = Len(messages')
                        /\ messages'[e.msg].chatId = e.chat
                  /\ \E e \in SendEvents(out') : e.type = "message"
                  /\ \E e \in SendEvents(out') :
                        e.type = "message:ack" /\ e.to = {s}]_vars

\* C35, the case: A's message to chat c1 is persisted as row 1, broadcast to
\* b1 in the room and acknowledged to a1.
C35_Witness ==
    /\ Len(messages) = 1
    /\ Event("message", {"b1"}, "-", "c1", 1, "DELIVERED") \in out
    /\ Event("message:ack", {"a1"}, "-", "c1", 1, "-") \in out

\* C36: when a Kafka publication or the caching of the message has failed
\* inside saveMessage, the row is persisted with the status it was saved with
\* and saveMessage returns it: the handler goes on to acknowledge it.
C36_NotifyFailureDoesNotFailSave ==
    [][\A s \in Conns :
          ( /\ op[s].kind = "message" /\ op[s].pc = "save" /\ op'[s] = IdleOp
            /\ \E e \in out' : e.type = "log" )
          => /\ Len(messages') = Len(messages) + 1
             /\ messages'[Len(messages')].status = op[s].status
             /\ Event("message:ack", {s}, "-", op[s].chat, Len(messages'), "-")
                   \in out']_vars

\* C36, the case: both the publication and the caching failed for A's first
\* message; it is stored with status SENT, acknowledged, and not in the cache.
C36_Witness ==
    /\ Logged("Failed to publish event") \in out
    /\ Logged("Error caching message") \in out
    /\ Event("message:ack", {"a1"}, "-", "c1", 1, "-") \in out
    /\ Len(messages) = 1 /\ messages[1].status = "SENT"
    /\ getCachedMessage(cache, 1) = "none"

\* C38: the list chat:recent:<chatId> of every chat holds at most
\* RECENT_MESSAGES_LIMIT entries.
C38_RecentListWithinLimit ==
    \A c \in Chats : cache.recent[c] <= RECENT_MESSAGES_LIMIT

\* C40: when the status of a stored message has been changed, a cached copy of
\* the message, if there is one, carries the new status.
C40_CachedCopyHasUpdatedStatus ==
    [][\A m \in 1..Len(messages) :
          messages'[m].status # messages[m].status
          => getCachedMessage(cache', m) \in {"none", messages'[m].status}]_vars

\* No handleConnection and no handleDisconnect is in progress, and no socket
\* is on its way to being closed.
NoConnectOrDisconnectInProgress ==
    \A s \in Conns : /\ pcOn[s] \in {"idle", "done"}
                     /\ pcOff[s] \in {"idle", "done"}
                     /\ sock[s] # "closing"

\* C39: while no connect or disconnect is in progress, users:list reports a
\* user online exactly when isUserOnline(user) is true.
C39_UsersListAgreesWithPresenceStore ==
    NoConnectOrDisconnectInProgress
    => \A u \in Users : handleUsersList(connectedClients)[u] <=> isUserOnline(u)

====
